---- MODULE Spec2Model ----
(***************************************************************************)
(* Model of the market dip scanner: the per-day alert StateStore           *)
(* (src/src/utils/state_store.py) and the QQQDipScanner decision pipeline  *)
(* (src/src/scanners/qqq_dip_scanner.py).                                  *)
(*                                                                         *)
(* Optional values (Python None) are sets with at most one element:        *)
(* {} is None, {v} is the value v.                                         *)
(* Percentages are integers (whole percent), the clock counts abstract     *)
(* time units, DayLen of them making one calendar day.                     *)
(***************************************************************************)
EXTENDS Integers, Sequences, FiniteSets, TLC

\* ------------------------------------------------------------------------
\* Bounds of the model
\* ------------------------------------------------------------------------
\* last clock value the model explores
MaxTime == 4
\* clock units per calendar day
DayLen == 2
\* clock value at which the process starts (day 1, so that day 0 is stale)
StartTime == DayLen

\* number of scans a behaviour runs
MaxScans == 2

\* ticker symbols as callers pass them, and their upper-case form
InputTickers == {"a", "B"}
Tickers == {"A", "B"}
\* dip values (percent change), tiers, prices, deltas, cooldowns of the calls
Dips == {-6, -4}
TierArgs == {{}, {1}, {2}}
PriceArgs == {{100}}
Deltas == {-2, 0}
Cooldowns == {1, 2}

VARIABLES
    now,        \* the wall clock (datetime.now())
    data,       \* StateStore.data: date key -> ticker -> entry
    file,       \* the persisted state file
    last,       \* the last operation: its arguments, result and pre-state
    cfg,        \* the scanner's configuration
    pc,         \* QQQDipScanner.scan: "idle" between scans, "loop" inside one
    mode,       \* how the running scan was called: live, backtest, simulate
    queue,      \* the sorted tickers the running scan has not evaluated yet
    qqq,        \* the benchmark's day change the scan fetched (tenths of a percent)
    audit,      \* the audit counters of the running scan
    alerts,     \* the AlertContexts of the running (or last) scan
    scans,      \* number of scans started
    ev,         \* the last ticker evaluation of the scan loop
    hist        \* the day the running scan started on, and the last
                \* evaluation of the tracked ticker if it was a live alert

scanVars == <<cfg, pc, mode, queue, qqq, audit, alerts, scans, ev, hist>>

\* QQQDipScanner._fetch_quotes
VARIABLES
    fetchPc,    \* "idle" before a call, "loop" inside it, "done" when it returned
    pending,    \* the tickers the loop has not finished with (head: the current one)
    attempt,    \* the attempt index of the current ticker
    quotes,     \* the tickers that have a Quote in the result dict
    calls,      \* number of get_quote calls made for each ticker
    slept,      \* the retry delays slept, in tenths of a second, with their ticker
    outcome     \* how the last get_quote call of each ticker ended

fetchVars == <<fetchPc, pending, attempt, quotes, calls, slept, outcome>>

\* SellAlertEngine
VARIABLES
    sellPc,     \* scan: "idle", "loop", "done" (returned), "raised" (an exception left it)
    tp_levels,  \* the take-profit levels the engine was constructed with
    positions,  \* the loaded positions scan has not evaluated yet
    sellAlerts, \* the SellAlerts of the running (or last) scan
    sellEv      \* the last position evaluated, its quote and the alerts before it

sellVars == <<sellPc, tp_levels, positions, sellAlerts, sellEv>>

\* main: the scheduler loop, run_once and the DailyNotifier
VARIABLES
    proc,       \* "off": no scheduler process; "top": at the head of the loop;
                \* "run": about to call run_once; "scan": run_once is scanning;
                \* "send": run_once is delivering; "exit": the process has ended
    cycles,     \* number of loop iterations started
    notice,     \* DailyNotifier.state
    noticeFile, \* data/daily_notices.json: nothing, or the state last saved
    posted,     \* the notices a sink accepted, by day, notice and sink: once,
                \* and again
    outbox,     \* the alerts run_once has not delivered yet
    deliveries, \* the send calls of the current iteration, with their outcome
    logged,     \* number of exceptions the loop caught and logged
    run         \* the last run_once: what the provider answered, how it ended;
                \* owed: the tickers the store recorded in a cycle and whose
                \* message alerter.send has not been called with since

procVars == <<proc, cycles, notice, noticeFile, posted, outbox, deliveries, logged, run>>
storeVars == <<now, data, file, last>>
auxVars == <<fetchVars, sellVars, procVars>>
vars == <<storeVars, scanVars, auxVars>>

\* ------------------------------------------------------------------------
\* Pure helpers of the StateStore
\* ------------------------------------------------------------------------
\* str.upper() on the ticker symbols of the model
Upper(t) == IF t = "a" THEN "A" ELSE IF t = "b" THEN "B" ELSE t

\* StateStore._today_key: the calendar day of the clock, as the date key
TodayKeyFixed(t) == 0
TodayKey(t) == t \div DayLen

\* datetime.isoformat() / datetime.fromisoformat()
IsoFormat(t) == [iso |-> t]
FromIsoFormat(s) == s.iso

\* a bucket with no ticker
EmptyBucket == [t \in Tickers |-> {}]
\* the dict {}
EmptyDict == [k \in {} |-> EmptyBucket]

\* the record should_alert writes
NewEntryDropPrice(low, tier, price, t) ==
    [kind |-> "dict", low |-> low, tier |-> tier, price |-> {}, ts |-> {IsoFormat(t)}]
NewEntry(low, tier, price, t) ==
    [kind |-> "dict", low |-> low, tier |-> tier, price |-> price, ts |-> {IsoFormat(t)}]

\* a legacy bare number stored under a ticker key
LegacyEntry(n) == [kind |-> "num", low |-> n, tier |-> {}, price |-> {}, ts |-> {}]

\* the backward-compatibility wrapping: a bare number becomes {low, tier: None}
WrapStamped(e) ==
    IF e.kind = "num"
    THEN [kind |-> "dict", low |-> e.low, tier |-> {}, price |-> {},
          ts |-> {IsoFormat(StartTime)}]
    ELSE e
Wrap(e) ==
    IF e.kind = "num"
    THEN [kind |-> "dict", low |-> e.low, tier |-> {}, price |-> {}, ts |-> {}]
    ELSE e

\* the file: absent, unreadable, or the JSON text of a store
NoFile == [exists |-> FALSE, valid |-> FALSE, content |-> EmptyDict]
CorruptFile == [exists |-> TRUE, valid |-> FALSE, content |-> EmptyDict]

\* StateStore._save: json.dump of the whole store, synchronously
Save(d) == [exists |-> TRUE, valid |-> TRUE, content |-> d]

\* today's bucket of a store, {} when there is none (data.get(today, {}))
TodayBucket(d, t) == IF TodayKey(t) \in DOMAIN d THEN d[TodayKey(t)] ELSE EmptyBucket

\* StateStore.reset_if_new_day
ResetIfNewDayAlways(d, f, t) ==
    LET d2 == [k \in {TodayKey(t)} |-> EmptyBucket]
    IN  [data |-> d2, file |-> Save(d2)]
ResetIfNewDayKeepOthers(d, f, t) ==
    IF TodayKey(t) \in DOMAIN d
    THEN [data |-> d, file |-> f]
    ELSE LET d2 == [k \in {TodayKey(t)} |-> EmptyBucket]
         IN  [data |-> d2, file |-> Save(d2)]
ResetIfNewDayDropOne(d, f, t) ==
    IF DOMAIN d = {TodayKey(t)}
    THEN [data |-> d, file |-> f]
    ELSE LET stale == DOMAIN d \ {TodayKey(t)}
             d2 == IF stale # {}
                   THEN [k \in DOMAIN d \ {CHOOSE k \in stale : TRUE} |-> d[k]]
                   ELSE [k \in {TodayKey(t)} |-> EmptyBucket]
         IN  [data |-> d2, file |-> Save(d2)]
ResetIfNewDay(d, f, t) ==
    IF DOMAIN d = {TodayKey(t)}
    THEN [data |-> d, file |-> f]
    ELSE LET d2 == [k \in {TodayKey(t)} |-> EmptyBucket]
         IN  [data |-> d2, file |-> Save(d2)]

\* StateStore._load (from __init__): read the file, then reset_if_new_day
Load(f, t) ==
    LET d == IF f.exists /\ f.valid THEN f.content ELSE EmptyDict
    IN  ResetIfNewDay(d, f, t)

\* StateStore.get_today_entry
GetTodayEntry(d, t, ticker) ==
    LET e == TodayBucket(d, t)[Upper(ticker)]
    IN  IF e = {} THEN {} ELSE {Wrap(CHOOSE x \in e : TRUE)}

\* in_cooldown of should_alert
InCooldownNever(lastTs, t, cooldown) == FALSE
InCooldown(lastTs, t, cooldown) ==
    IF lastTs = {} THEN FALSE
    ELSE t < FromIsoFormat(CHOOSE x \in lastTs : TRUE) + cooldown

\* "tier is not None and last_tier is not None and tier > last_tier"
TierUpgradeNever(tier, lastTier) == FALSE
TierUpgrade(tier, lastTier) ==
    /\ tier # {}
    /\ lastTier # {}
    /\ (CHOOSE x \in tier : TRUE) > (CHOOSE x \in lastTier : TRUE)

\* "low_change_pct <= last_low + realert_delta"
DeepenedStrict(low, lastLow, delta) == low < lastLow + delta
DeepenedIgnoreDelta(low, lastLow, delta) == low <= lastLow
Deepened(low, lastLow, delta) == low <= lastLow + delta

\* "tier or last_tier"
TierOr(tier, lastTier) == IF tier = {} \/ tier = {0} THEN lastTier ELSE tier

\* the store with today's bucket created when missing (state_store.py:59-60)
WithToday(d, t) ==
    [k \in DOMAIN d \cup {TodayKey(t)} |-> IF k \in DOMAIN d THEN d[k] ELSE EmptyBucket]

\* "record": overwrite the ticker's entry, save, return True
RecordFirstLow(d, t, ticker, low, tier, price) ==
    LET old == d[TodayKey(t)][ticker]
        kept == IF old = {} THEN low ELSE (CHOOSE x \in old : TRUE).low
        d2 == [d EXCEPT ![TodayKey(t)][ticker] = {NewEntry(kept, tier, price, t)}]
    IN  [data |-> d2, file |-> Save(d2), result |-> TRUE]
Record(d, t, ticker, low, tier, price) ==
    LET d2 == [d EXCEPT ![TodayKey(t)][ticker] = {NewEntry(low, tier, price, t)}]
    IN  [data |-> d2, file |-> Save(d2), result |-> TRUE]

\* should_alert after the testing_mode branch (state_store.py:72-125);
\* d already holds today's bucket
DedupeTouch(d, f, t, ticker, low, delta, tier, price, cooldown) ==
    LET stored == d[TodayKey(t)][ticker]
    IN  IF stored = {}
        THEN Record(d, t, ticker, low, tier, price)
        ELSE LET lastEntry == Wrap(CHOOSE x \in stored : TRUE)
                 touched == [d EXCEPT ![TodayKey(t)][ticker] =
                                {[lastEntry EXCEPT !.ts = {IsoFormat(t)}]}]
             IN  IF TierUpgrade(tier, lastEntry.tier)
                 THEN Record(d, t, ticker, low, tier, price)
                 ELSE IF Deepened(low, lastEntry.low, delta)
                 THEN Record(d, t, ticker, low, TierOr(tier, lastEntry.tier), price)
                 ELSE IF InCooldown(lastEntry.ts, t, cooldown)
                 THEN [data |-> touched, file |-> Save(touched), result |-> FALSE]
                 ELSE Record(d, t, ticker, low, tier, price)
Dedupe(d, f, t, ticker, low, delta, tier, price, cooldown) ==
    LET stored == d[TodayKey(t)][ticker]
    IN  IF stored = {}
        THEN Record(d, t, ticker, low, tier, price)
        ELSE LET lastEntry == Wrap(CHOOSE x \in stored : TRUE)
             IN  IF TierUpgrade(tier, lastEntry.tier)
                 THEN Record(d, t, ticker, low, tier, price)
                 ELSE IF Deepened(low, lastEntry.low, delta)
                 THEN Record(d, t, ticker, low, TierOr(tier, lastEntry.tier), price)
                 ELSE IF InCooldown(lastEntry.ts, t, cooldown)
                 THEN [data |-> d, file |-> f, result |-> FALSE]
                 ELSE Record(d, t, ticker, low, tier, price)

\* StateStore.should_alert
ShouldAlertNoTesting(d, f, t, ticker, low, delta, tier, price, cooldown, testing) ==
    Dedupe(WithToday(d, t), f, t, Upper(ticker), low, delta, tier, price, cooldown)
ShouldAlert(d, f, t, ticker, low, delta, tier, price, cooldown, testing) ==
    IF testing
    THEN Record(WithToday(d, t), t, Upper(ticker), low, tier, price)
    ELSE Dedupe(WithToday(d, t), f, t, Upper(ticker), low, delta, tier, price, cooldown)

\* ------------------------------------------------------------------------
\* The dip decision pipeline (QQQDipScanner.scan)
\* Units: market cap and dollar volume in billions, average volume in
\* millions, relative volume and the benchmark change in tenths, everything
\* else in whole percent or whole price units.
\* ------------------------------------------------------------------------
\* str.lower() on the analyst ratings of the model
Lower(r) == IF r \in {"Sell", "SELL", "sell"} THEN "sell" ELSE r

\* the universe quality gates (qqq_dip_scanner.py:226-241)
UniverseGatesNullDollarVolume(q, c) ==
    /\ ~(q.market_cap < c.market_cap_min)
    /\ ~(q.avg_volume < c.avg_volume_min)
    /\ ~(\E v \in q.dollar_volume : v < c.min_dollar_volume)
    /\ ~(q.positive_fcf_or_income = {FALSE})
    /\ ~(q.analyst_rating # {} /\ \E r \in q.analyst_rating : r # "" /\ Lower(r) = "sell")
UniverseGates(q, c) ==
    /\ ~(q.market_cap < c.market_cap_min)
    /\ ~(q.avg_volume < c.avg_volume_min)
    /\ ~(q.dollar_volume = {} \/ \E v \in q.dollar_volume : v < c.min_dollar_volume)
    /\ ~(q.positive_fcf_or_income = {FALSE})
    /\ ~(q.analyst_rating # {} /\ \E r \in q.analyst_rating : r # "" /\ Lower(r) = "sell")

\* pct_from_prev and intraday_low_pct (qqq_dip_scanner.py:215-218); prices
\* of the model make the division exact
PctFromPrev(q) ==
    LET prev == IF q.prev_close # 0 THEN q.prev_close ELSE q.price
    IN  IF prev # 0 THEN {((q.price - prev) * 100) \div prev} ELSE {}
IntradayLowPct(q) ==
    IF q.intraday_low_change # {} THEN q.intraday_low_change ELSE PctFromPrev(q)

\* dist200 recomputed from price and ma200 (qqq_dip_scanner.py:219-222)
Dist200(q) ==
    IF q.dma200_dist_pct # {} /\ q.ma200 # {} /\ q.ma200 # {0}
    THEN {((q.price * 100) \div (CHOOSE m \in q.ma200 : TRUE)) - 100}
    ELSE q.dma200_dist_pct

\* the smaller of two numbers (min)
Min2(a, b) == IF a <= b THEN a ELSE b

\* dip metric selection (qqq_dip_scanner.py:243-254):
\* "quote.intraday_low_change or quote.change_pct" takes the change when the
\* low is None or 0
DipMetricFromClose(q, c, marketOpen) ==
    IF marketOpen
    THEN PctFromPrev(q)
    ELSE IF c.after_hours_enabled /\ q.change_pct # {} /\ q.intraday_low_change # {}
         THEN {Min2(CHOOSE x \in q.intraday_low_change : TRUE, CHOOSE x \in q.change_pct : TRUE)}
         ELSE IF q.intraday_low_change # {} /\ q.intraday_low_change # {0}
              THEN q.intraday_low_change
              ELSE q.change_pct
DipMetric(q, c, marketOpen) ==
    IF marketOpen
    THEN IntradayLowPct(q)
    ELSE IF c.after_hours_enabled /\ q.change_pct # {} /\ q.intraday_low_change # {}
         THEN {Min2(CHOOSE x \in q.intraday_low_change : TRUE, CHOOSE x \in q.change_pct : TRUE)}
         ELSE IF q.intraday_low_change # {} /\ q.intraday_low_change # {0}
              THEN q.intraday_low_change
              ELSE q.change_pct

\* tier selection (qqq_dip_scanner.py:261-290): skip, or the tier with its
\* minimum confirmations, RSI ceiling and relative-volume floor
NoTier == [skip |-> TRUE, tier |-> 0, min_conf |-> 0, rsi_max |-> 0, relvol_min |-> 0]
TierOfStrict(dip, c) ==
    IF dip = {} THEN NoTier
    ELSE LET d == CHOOSE x \in dip : TRUE
         IN  IF c.tiered_dips_enabled
             THEN IF d < c.tier2_dip
                  THEN [skip |-> FALSE, tier |-> 2, min_conf |-> c.tier2_min_confirmations,
                        rsi_max |-> c.tier2_rsi_max, relvol_min |-> c.tier2_relvol_min]
                  ELSE IF d < c.tier1_dip
                  THEN [skip |-> FALSE, tier |-> 1, min_conf |-> c.tier1_min_confirmations,
                        rsi_max |-> c.tier1_rsi_max, relvol_min |-> c.tier1_relvol_min]
                  ELSE NoTier
             ELSE IF d >= c.dip_threshold
                  THEN NoTier
                  ELSE [skip |-> FALSE, tier |-> 2, min_conf |-> 2,
                        rsi_max |-> c.rsi_threshold, relvol_min |-> c.relative_volume_min]
TierOf(dip, c) ==
    IF dip = {} THEN NoTier
    ELSE LET d == CHOOSE x \in dip : TRUE
         IN  IF c.tiered_dips_enabled
             THEN IF d <= c.tier2_dip
                  THEN [skip |-> FALSE, tier |-> 2, min_conf |-> c.tier2_min_confirmations,
                        rsi_max |-> c.tier2_rsi_max, relvol_min |-> c.tier2_relvol_min]
                  ELSE IF d <= c.tier1_dip
                  THEN [skip |-> FALSE, tier |-> 1, min_conf |-> c.tier1_min_confirmations,
                        rsi_max |-> c.tier1_rsi_max, relvol_min |-> c.tier1_relvol_min]
                  ELSE NoTier
             ELSE IF d > c.dip_threshold
                  THEN NoTier
                  ELSE [skip |-> FALSE, tier |-> 2, min_conf |-> 2,
                        rsi_max |-> c.rsi_threshold, relvol_min |-> c.relative_volume_min]

\* the audit counter a tier hit increments (only in tiered mode)
TierAudit(a, t, c) ==
    IF ~c.tiered_dips_enabled \/ t.skip THEN a
    ELSE IF t.tier = 2 THEN [a EXCEPT !.tier2 = @ + 1]
    ELSE [a EXCEPT !.tier1 = @ + 1]

\* 200-DMA zones (qqq_dip_scanner.py:292-318): zone, grade, whether the
\* ticker is skipped, and the audit counter incremented
ZoneOfAnySlope(dist, q, c) ==
    IF dist = {}
    THEN [zone |-> "UNKNOWN", grade |-> "B", skip |-> FALSE, count |-> "none"]
    ELSE LET d == CHOOSE x \in dist : TRUE
         IN  IF d >= c.dma200_green_pct
             THEN [zone |-> "GREEN", grade |-> "A", skip |-> FALSE, count |-> "green_pass"]
             ELSE IF d > c.dma200_red_pct
             THEN [zone |-> "YELLOW", grade |-> "B", skip |-> FALSE, count |-> "yellow_pass"]
             ELSE IF d <= c.hard_reject_below_200dma_pct
                  THEN [zone |-> "RED", grade |-> "B", skip |-> TRUE, count |-> "red_reject"]
                  ELSE [zone |-> "RED", grade |-> "C", skip |-> FALSE, count |-> "none"]
ZoneOf(dist, q, c) ==
    IF dist = {}
    THEN [zone |-> "UNKNOWN", grade |-> "B", skip |-> FALSE, count |-> "none"]
    ELSE LET d == CHOOSE x \in dist : TRUE
         IN  IF d >= c.dma200_green_pct
             THEN [zone |-> "GREEN", grade |-> "A", skip |-> FALSE, count |-> "green_pass"]
             ELSE IF d > c.dma200_red_pct
             THEN IF c.require_rising_dma200_in_yellow /\ q.dma200_slope_rising = {FALSE}
                  THEN [zone |-> "YELLOW", grade |-> "B", skip |-> TRUE, count |-> "yellow_fail"]
                  ELSE [zone |-> "YELLOW", grade |-> "B", skip |-> FALSE, count |-> "yellow_pass"]
             ELSE IF d <= c.hard_reject_below_200dma_pct
                  THEN [zone |-> "RED", grade |-> "B", skip |-> TRUE, count |-> "red_reject"]
                  ELSE [zone |-> "RED", grade |-> "C", skip |-> FALSE, count |-> "none"]

ZoneAudit(a, z) ==
    IF z.count = "none" THEN a ELSE [a EXCEPT ![z.count] = @ + 1]

\* the confirmation signals (qqq_dip_scanner.py:333-341): label, whether it
\* is evaluated at all, and whether it holds
Signals(q, c, t, bench) ==
    << [label |-> "RSI", on |-> TRUE,
        ok |-> q.rsi # {} /\ \E x \in q.rsi : x <= t.rsi_max],
       [label |-> "RelVol", on |-> TRUE,
        ok |-> q.relative_volume # {} /\ \E x \in q.relative_volume : x >= t.relvol_min],
       [label |-> "$Vol", on |-> TRUE,
        ok |-> q.dollar_volume # {} /\ \E x \in q.dollar_volume : x >= c.min_dollar_volume],
       [label |-> "MktCap", on |-> TRUE,
        ok |-> q.market_cap >= c.market_cap_min],
       [label |-> "VWAP touch", on |-> TRUE,
        ok |-> q.vwap # {} /\ q.vwap # {0} /\ \E x \in q.vwap : q.price <= x],
       [label |-> "QQQ>-2.5%", on |-> bench # {},
        ok |-> \E x \in bench : x > -25],
       [label |-> "Fast selloff",
        on |-> c.require_fast_selloff /\ q.days_since_pullback_start # {},
        ok |-> \E x \in q.days_since_pullback_start : x <= 3] >>

ConfirmationsNoRepeats(q, c, t, bench) ==
    LET sg == Signals(q, c, t, bench)
    IN  Cardinality({i \in DOMAIN sg : sg[i].on /\ sg[i].ok /\ sg[i].label \notin {"$Vol", "MktCap"}})
Confirmations(q, c, t, bench) ==
    LET sg == Signals(q, c, t, bench)
    IN  Cardinality({i \in DOMAIN sg : sg[i].on /\ sg[i].ok})

\* max
Max2(a, b) == IF a >= b THEN a ELSE b

\* min_conf (qqq_dip_scanner.py:343-347)
MinConfTierOnly(t, z) == t.min_conf
MinConfUnlessGreen(t, z) == IF z.zone # "GREEN" THEN Max2(t.min_conf, 3) ELSE t.min_conf
MinConf(t, z) == IF z.zone \in {"YELLOW", "RED"} THEN Max2(t.min_conf, 3) ELSE t.min_conf

\* one pass of the loop body up to the dedup call (qqq_dip_scanner.py:209-351):
\* the stage at which the ticker is skipped ("dedupe" when it reaches
\* should_alert), the audit counters, and what was computed on the way
PipelineTierFirst(q, c, a, marketOpen, bench) ==
    LET dip == DipMetric(q, c, marketOpen)
        t == TierOf(dip, c)
        a1 == TierAudit(a, t, c)
        z == ZoneOf(Dist200(q), q, c)
        a2 == ZoneAudit(a1, z)
        n == Confirmations(q, c, t, bench)
        need == MinConf(t, z)
        out(stage, au) == [stage |-> stage, audit |-> au, dip |-> dip, tier |-> t.tier,
                           min_conf |-> t.min_conf, rsi_max |-> t.rsi_max,
                           relvol_min |-> t.relvol_min,
                           zone |-> z.zone, grade |-> z.grade, conf |-> n, need |-> need]
    IN  IF t.skip THEN out("tier", a1)
        ELSE IF ~UniverseGates(q, c) THEN out("universe", a1)
        ELSE IF z.skip THEN out("zone", a2)
        ELSE IF n < need THEN out("confirm", a2)
        ELSE out("dedupe", a2)
PipelineNoConfirm(q, c, a, marketOpen, bench) ==
    LET dip == DipMetric(q, c, marketOpen)
        t == TierOf(dip, c)
        a1 == TierAudit(a, t, c)
        z == ZoneOf(Dist200(q), q, c)
        a2 == ZoneAudit(a1, z)
        n == Confirmations(q, c, t, bench)
        need == MinConf(t, z)
        out(stage, au) == [stage |-> stage, audit |-> au, dip |-> dip, tier |-> t.tier,
                           min_conf |-> t.min_conf, rsi_max |-> t.rsi_max,
                           relvol_min |-> t.relvol_min,
                           zone |-> z.zone, grade |-> z.grade, conf |-> n, need |-> need]
    IN  IF ~UniverseGates(q, c) THEN out("universe", a)
        ELSE IF t.skip THEN out("tier", a1)
        ELSE IF z.skip THEN out("zone", a2)
        ELSE out("dedupe", a2)
Pipeline(q, c, a, marketOpen, bench) ==
    LET dip == DipMetric(q, c, marketOpen)
        t == TierOf(dip, c)
        a1 == TierAudit(a, t, c)
        z == ZoneOf(Dist200(q), q, c)
        a2 == ZoneAudit(a1, z)
        n == Confirmations(q, c, t, bench)
        need == MinConf(t, z)
        out(stage, au) == [stage |-> stage, audit |-> au, dip |-> dip, tier |-> t.tier,
                           min_conf |-> t.min_conf, rsi_max |-> t.rsi_max,
                           relvol_min |-> t.relvol_min,
                           zone |-> z.zone, grade |-> z.grade, conf |-> n, need |-> need]
    IN  IF ~UniverseGates(q, c) THEN out("universe", a)
        ELSE IF t.skip THEN out("tier", a1)
        ELSE IF z.skip THEN out("zone", a2)
        ELSE IF n < need THEN out("confirm", a2)
        ELSE out("dedupe", a2)

\* is_market_open (time_utils.py:13-22): the regular session is the first
\* clock unit of the day
IsMarketOpen(t) == t % DayLen = 0

\* testing_mode passed to should_alert (qqq_dip_scanner.py:361)
TestingFlagConfigOnly(c, m) == c.testing_mode
TestingFlag(c, m) == c.testing_mode \/ m = "backtest" \/ m = "simulate"

\* ------------------------------------------------------------------------
\* The StateStore as a state machine: a process that owns the file and is
\* called by the scanner, with the clock advancing between calls
\* ------------------------------------------------------------------------
\* the argument tuple of a should_alert call
NoArgs == [ticker |-> "", low |-> 0, delta |-> 0, tier |-> {}, price |-> {},
           cooldown |-> 0, testing |-> FALSE]

\* the calls of should_alert the model makes: every combination of arguments
\* for the first ticker in live mode, every dip and tier in testing mode; the
\* second ticker only has the record a starting
\* process finds in the file
CallArgs ==
    [ticker : {"a"}, low : Dips, delta : Deltas, tier : TierArgs, price : PriceArgs,
     cooldown : Cooldowns, testing : {FALSE}]
    \cup [ticker : {"a"}, low : Dips, delta : {-2}, tier : TierArgs, price : PriceArgs,
          cooldown : {2}, testing : {TRUE}]

\* the record of an operation: what was called, when, on which state, and
\* what it returned (result for should_alert, entry for get_today_entry);
\* prevSame: the operation before was a should_alert with the same arguments
\* on the same day; prevFirst: that call found no record of the ticker;
\* prevResult, prevAt: what that call returned, and when it was made;
\* prevReset: this is a reset_if_new_day that follows another one of the
\* same day
PrevSame(op, args) ==
    /\ op = "should_alert"
    /\ last.op = "should_alert"
    /\ last.args = args
    /\ TodayKey(last.at) = TodayKey(now)
OpRecord(op, args, result, entry) ==
    [op |-> op, args |-> args, result |-> result, entry |-> entry, at |-> now,
     preData |-> data, preFile |-> file,
     prevSame |-> PrevSame(op, args),
     prevFirst |-> /\ PrevSame(op, args)
                   /\ TodayBucket(last.preData, last.at)[Upper(last.args.ticker)] = {},
     prevResult |-> PrevSame(op, args) /\ last.result,
     prevAt |-> IF PrevSame(op, args) THEN last.at ELSE 0,
     prevReset |-> /\ op = "reset"
                   /\ last.op = "reset"
                   /\ TodayKey(last.at) = TodayKey(now)]

\* files a starting process can find: none, an unreadable one, the text
\* "{}", yesterday's store, today's store (full and legacy records), and a
\* store with two date keys
Rec0 == [kind |-> "dict", low |-> -4, tier |-> {1}, price |-> {90}, ts |-> {IsoFormat(StartTime - 1)}]
Rec1 == [kind |-> "dict", low |-> -4, tier |-> {1}, price |-> {90}, ts |-> {IsoFormat(StartTime)}]
Yesterday == TodayKey(StartTime - 1)
BucketOf(t, e) == [x \in Tickers |-> IF x = t THEN {e} ELSE {}]
LegacyFile ==
    Save([k \in {TodayKey(StartTime)} |->
            [x \in Tickers |-> IF x = "A" THEN {LegacyEntry(-4)} ELSE {Rec1}]])
InitFiles ==
    { NoFile, CorruptFile, Save(EmptyDict),
      Save([k \in {Yesterday} |-> BucketOf("A", Rec0)]),
      Save([k \in {TodayKey(StartTime)} |-> BucketOf("A", Rec1)]),
      LegacyFile,
      Save([k \in {Yesterday, TodayKey(StartTime)} |->
              IF k = Yesterday THEN BucketOf("A", Rec0) ELSE BucketOf("A", Rec1)]) }

\* the files the scanner's first StateStore can find: none, or today's store
\* with a record of each ticker
ScanFiles == {NoFile, LegacyFile}

\* the configuration: thresholds as in Config.from_file's defaults, rounded
\* to the units of the model
BaseConfig ==
    [market_cap_min |-> 20, avg_volume_min |-> 2, min_dollar_volume |-> 1,
     tiered_dips_enabled |-> FALSE, dip_threshold |-> -5,
     rsi_threshold |-> 35, relative_volume_min |-> 15,
     tier1_dip |-> -4, tier2_dip |-> -5,
     tier1_min_confirmations |-> 3, tier2_min_confirmations |-> 2,
     tier1_rsi_max |-> 35, tier2_rsi_max |-> 40,
     tier1_relvol_min |-> 15, tier2_relvol_min |-> 12,
     dma200_green_pct |-> 2, dma200_red_pct |-> -2,
     allow_red_reclaim |-> FALSE, hard_reject_below_200dma_pct |-> -10,
     require_rising_dma200_in_yellow |-> TRUE, require_fast_selloff |-> TRUE,
     after_hours_enabled |-> FALSE, realert_delta |-> -2,
     dedupe_cooldown_minutes |-> 2, testing_mode |-> FALSE,
     market_hours_only |-> TRUE, enable_sell_alerts |-> FALSE]
Configs ==
    { [BaseConfig EXCEPT !.tiered_dips_enabled = t, !.after_hours_enabled = t] :
        t \in BOOLEAN }

ZeroAudit == [green_pass |-> 0, yellow_pass |-> 0, yellow_fail |-> 0, red_reject |-> 0,
              tier1 |-> 0, tier2 |-> 0, tier_upgrade |-> 0]

\* a quote that passes every gate: Tier 2 dip, GREEN zone (20% above the
\* average), all confirmations
GoodQuote ==
    [price |-> 96, prev_close |-> 100, change_pct |-> {-4},
     avg_volume |-> 5, market_cap |-> 25, dollar_volume |-> {2},
     intraday_low_change |-> {-6}, rsi |-> {30}, relative_volume |-> {20},
     vwap |-> {100}, ma200 |-> {80}, dma200_dist_pct |-> {20},
     dma200_slope_rising |-> {TRUE}, days_since_pullback_start |-> {1},
     positive_fcf_or_income |-> {TRUE}, analyst_rating |-> {"buy"}]
\* a quote with the fields every provider fills and nothing else: a 6% dip
\* at the intraday low, 3% above the average, RSI 30, relative volume 2.0
ScenarioQuote ==
    [GoodQuote EXCEPT !.vwap = {}, !.ma200 = {}, !.dma200_dist_pct = {3},
                      !.dma200_slope_rising = {}, !.days_since_pullback_start = {},
                      !.positive_fcf_or_income = {}, !.analyst_rating = {}]
\* the quotes the provider returns in the model: the good one and its
\* variations in a few fields (ma200 96: YELLOW, 100: RED, 120: below the
\* hard floor, none: distance unknown; a session low at the previous close
\* with the last price 6% under it; a GREEN Tier 2 dip with no RSI, low
\* relative volume, no VWAP and a slow pullback)
QuoteSet ==
    { GoodQuote,
      [GoodQuote EXCEPT !.market_cap = 10],
      [GoodQuote EXCEPT !.avg_volume = 1],
      [GoodQuote EXCEPT !.dollar_volume = {}],
      [GoodQuote EXCEPT !.dollar_volume = {0}, !.intraday_low_change = {-4}],
      [GoodQuote EXCEPT !.positive_fcf_or_income = {FALSE}, !.ma200 = {96}],
      [GoodQuote EXCEPT !.analyst_rating = {"Sell"}, !.ma200 = {120}],
      [GoodQuote EXCEPT !.intraday_low_change = {-4}],
      [GoodQuote EXCEPT !.intraday_low_change = {-2}],
      [GoodQuote EXCEPT !.ma200 = {96}, !.dma200_slope_rising = {FALSE}],
      [GoodQuote EXCEPT !.ma200 = {100}],
      [GoodQuote EXCEPT !.ma200 = {120}],
      [GoodQuote EXCEPT !.rsi = {}, !.relative_volume = {10}, !.vwap = {},
                        !.intraday_low_change = {-4}, !.days_since_pullback_start = {5}],
      [GoodQuote EXCEPT !.rsi = {}, !.relative_volume = {10}, !.vwap = {},
                        !.ma200 = {96}, !.days_since_pullback_start = {}],
      [GoodQuote EXCEPT !.ma200 = {96}, !.dma200_slope_rising = {}],
      [GoodQuote EXCEPT !.ma200 = {}, !.dma200_dist_pct = {}],
      [GoodQuote EXCEPT !.days_since_pullback_start = {5}],
      [GoodQuote EXCEPT !.intraday_low_change = {0}, !.change_pct = {}],
      [GoodQuote EXCEPT !.intraday_low_change = {0}, !.change_pct = {-6}],
      [GoodQuote EXCEPT !.rsi = {}, !.relative_volume = {10}, !.vwap = {},
                        !.days_since_pullback_start = {5}],
      ScenarioQuote }

\* the Quote scan builds for --simulate (qqq_dip_scanner.py:166-183)
SimQuote(sim) ==
    [price |-> 100, prev_close |-> 100, change_pct |-> {sim.dip},
     avg_volume |-> 10, market_cap |-> 50, dollar_volume |-> {1},
     intraday_low_change |-> {sim.dip}, rsi |-> {sim.rsi}, relative_volume |-> {sim.relvol},
     vwap |-> {}, ma200 |-> {100}, dma200_dist_pct |-> {sim.dist200},
     dma200_slope_rising |-> {}, days_since_pullback_start |-> {},
     positive_fcf_or_income |-> {}, analyst_rating |-> {}]
\* the --simulate arguments of the model (ticker A)
SimArgs == [dip |-> -6, rsi |-> 30, relvol |-> 20, dist200 |-> 3]

\* the scanner's universe, sorted (qqq_dip_scanner.py:154-158)
Universe == <<"A", "B">>

\* the ticker whose evaluations are remembered from one scan to the next
Tracked == "A"
NoHist == [day |-> {}, rec |-> {}]
\* the history after an evaluation of ticker t: what a live scan alerted on
\* (quote, dip metric, time, and whether the scan had started that day),
\* nothing after any other evaluation
Remember(h, t, qo, dip, at, m, alerted) ==
    IF t # Tracked THEN h
    ELSE IF m = "live" /\ alerted
    THEN [h EXCEPT !.rec = {[quote |-> qo, dip |-> dip, at |-> at,
                             sameDay |-> h.day = {TodayKey(at)}]}]
    ELSE [h EXCEPT !.rec = {}]

NoEval == [ticker |-> "", quote |-> {}, marketOpen |-> FALSE, stage |-> "none",
           at |-> 0, day |-> {}, prev |-> {},
           preAudit |-> ZeroAudit, preData |-> EmptyDict, preFile |-> NoFile,
           preAlerts |-> 0, called |-> FALSE, result |-> FALSE, news |-> FALSE,
           dip |-> {}, tier |-> 0, min_conf |-> 0, rsi_max |-> 0, relvol_min |-> 0,
           zone |-> "", grade |-> "", conf |-> 0, need |-> 0]

ScanIdle ==
    /\ pc = "idle"
    /\ mode = "live"
    /\ queue = <<>>
    /\ qqq = {}
    /\ audit = ZeroAudit
    /\ alerts = <<>>
    /\ scans = 0
    /\ ev = NoEval
    /\ hist = NoHist

\* no call of _fetch_quotes has been made
FetchIdle ==
    /\ fetchPc = "idle"
    /\ pending = <<>>
    /\ attempt = 0
    /\ quotes = {}
    /\ calls = [t \in Tickers |-> 0]
    /\ slept = <<>>
    /\ outcome = [t \in Tickers |-> "none"]

\* no position has been evaluated
NoSellEval == [pos |-> {}, price |-> {}, preAlerts |-> 0]
\* no call of SellAlertEngine.scan has been made
SellIdle ==
    /\ sellPc = "idle"
    /\ tp_levels = <<>>
    /\ positions = <<>>
    /\ sellAlerts = <<>>
    /\ sellEv = NoSellEval

\* DailyNotifier.state of a new notifier with no file
NoNotice == [date |-> {}, premarket |-> FALSE, open |-> FALSE]
\* no notice has been posted
NoPosts == [once |-> {}, again |-> {}]
\* no run_once has been made
NoRun == [outcome |-> "none", after |-> "none", cache |-> "none", online |-> {},
          watch |-> <<>>, at |-> 0, preFile |-> NoFile, preLogged |-> 0, cycle |-> 0,
          owed |-> {}]
\* the scheduler's variables at process start
ProcStart ==
    /\ cycles = 0
    /\ notice = NoNotice
    /\ noticeFile = {}
    /\ posted = NoPosts
    /\ outbox = <<>>
    /\ deliveries = <<>>
    /\ logged = 0
    /\ run = NoRun
\* there is no scheduler: the scanner is called directly
ProcOff ==
    /\ proc = "off"
    /\ ProcStart

\* the components outside the store and the scan loop are at rest
AuxIdle == FetchIdle /\ SellIdle /\ ProcOff

InitStoreFrom(files) ==
    /\ now = StartTime
    /\ \E f \in files :
         /\ data = Load(f, StartTime).data
         /\ file = Load(f, StartTime).file
    /\ last = [op |-> "init", args |-> NoArgs, result |-> FALSE, entry |-> {},
               at |-> StartTime, preData |-> EmptyDict, preFile |-> NoFile,
               prevSame |-> FALSE, prevFirst |-> FALSE, prevResult |-> FALSE,
               prevAt |-> 0, prevReset |-> FALSE]

InitStore == InitStoreFrom(InitFiles)

Init ==
    /\ InitStore
    /\ cfg = BaseConfig
    /\ ScanIdle
    /\ AuxIdle

\* time passes (possibly across midnight); a cycle of the scheduler is
\* short against the clock's unit: there the clock advances while the loop
\* sleeps
Tick ==
    /\ now < MaxTime
    /\ proc \in {"off", "top"}
    /\ now' = now + 1
    /\ UNCHANGED <<data, file, last>>
    /\ UNCHANGED scanVars
    /\ UNCHANGED auxVars

\* the process restarts: a new StateStore is constructed on the file
Restart ==
    /\ data' = Load(file, now).data
    /\ file' = Load(file, now).file
    /\ last' = OpRecord("restart", NoArgs, FALSE, {})
    /\ UNCHANGED now
    /\ UNCHANGED scanVars
    /\ UNCHANGED auxVars

\* a call of reset_if_new_day
ResetCall ==
    /\ data' = ResetIfNewDay(data, file, now).data
    /\ file' = ResetIfNewDay(data, file, now).file
    /\ last' = OpRecord("reset", NoArgs, FALSE, {})
    /\ UNCHANGED now
    /\ UNCHANGED scanVars
    /\ UNCHANGED auxVars

\* a call of get_today_entry
GetEntryCall ==
    \E t \in InputTickers :
        /\ last' = OpRecord("get", [NoArgs EXCEPT !.ticker = t], FALSE,
                            GetTodayEntry(data, now, t))
        /\ UNCHANGED <<now, data, file>>
        /\ UNCHANGED scanVars
        /\ UNCHANGED auxVars

\* a call of should_alert
ShouldAlertCall ==
    \E a \in CallArgs :
        LET r == ShouldAlert(data, file, now, a.ticker, a.low, a.delta, a.tier, a.price,
                             a.cooldown, a.testing)
        IN  /\ data' = r.data
            /\ file' = r.file
            /\ last' = OpRecord("should_alert", a, r.result, {})
            /\ UNCHANGED now
            /\ UNCHANGED scanVars
            /\ UNCHANGED auxVars

Next == Tick \/ Restart \/ ResetCall \/ GetEntryCall \/ ShouldAlertCall

Spec == Init /\ [][Next]_vars

\* ------------------------------------------------------------------------
\* The scanner as a state machine: scans that evaluate the universe one
\* ticker at a time, the clock advancing between the steps
\* ------------------------------------------------------------------------
InitScan ==
    /\ InitStoreFrom(ScanFiles)
    /\ cfg \in Configs
    /\ ScanIdle
    /\ AuxIdle

\* the benchmark's day change a scan can fetch (qqq_dip_scanner.py:188-196),
\* in tenths of a percent: unavailable, -1.0% or -3.0% in a live scan,
\* unavailable or -1.0% in a backtest, -1.0% in a simulation
BenchmarkFor(m) ==
    IF m = "live" THEN {{}, {-10}, {-30}}
    ELSE IF m = "backtest" THEN {{}, {-10}}
    ELSE {{-10}}

\* scan() up to the loop: reset_if_new_day, the universe, the benchmark
\* quote; run_once constructs the scanner (and its StateStore) anew for
\* every cycle, a caller may also scan again with the same scanner
ScanBegin(m, b, fresh, tickers) ==
    /\ pc = "idle"
    /\ scans < MaxScans
    /\ mode' = m
    /\ qqq' = b
    /\ LET s0 == IF fresh THEN Load(file, now) ELSE [data |-> data, file |-> file]
           s1 == ResetIfNewDay(s0.data, s0.file, now)
       IN  /\ data' = s1.data
           /\ file' = s1.file
    /\ pc' = "loop"
    /\ queue' = tickers
    /\ audit' = ZeroAudit
    /\ alerts' = <<>>
    /\ scans' = scans + 1
    /\ ev' = NoEval
    /\ hist' = [hist EXCEPT !.day = {TodayKey(now)}]
    /\ UNCHANGED <<now, cfg, last>>

\* a caller starts a scan, in any mode, with a new scanner or the one of
\* the scan before
ScanStart ==
    /\ \E m \in {"live", "backtest", "simulate"} :
         \E b \in BenchmarkFor(m) :
             \E fresh \in BOOLEAN : ScanBegin(m, b, fresh, Universe)
    /\ UNCHANGED auxVars

\* the headlines the provider returns (get_news_headlines): whether the title
\* holds a risk keyword, whether the item was published before the lookback
\* cutoff, whether its publisher is blocked. The first ticker has a recent
\* risky headline after an old and a blocked one, the second none.
Headlines(t) ==
    IF t = "A"
    THEN << [risky |-> TRUE, old |-> TRUE, blocked |-> FALSE],
            [risky |-> TRUE, old |-> FALSE, blocked |-> TRUE],
            [risky |-> TRUE, old |-> FALSE, blocked |-> FALSE] >>
    ELSE << [risky |-> TRUE, old |-> TRUE, blocked |-> FALSE],
            [risky |-> FALSE, old |-> FALSE, blocked |-> FALSE] >>

\* _news_flag (qqq_dip_scanner.py:41-59): a headline inside the lookback
\* window, not from a blocked publisher, whose title holds a keyword
NewsFlag(t) ==
    \E i \in DOMAIN Headlines(t) :
        /\ ~Headlines(t)[i].old
        /\ ~Headlines(t)[i].blocked
        /\ Headlines(t)[i].risky

\* the news check and the rendering of an admitted ticker
\* (qqq_dip_scanner.py:366-406): the AlertContext is appended whatever the
\* news check found
EmitUnlessFlagged(al, t, q, p, flagged) ==
    IF flagged THEN al
    ELSE Append(al, [ticker |-> t, quote |-> q, dip |-> p.dip, tier |-> p.tier,
                     zone |-> p.zone, grade |-> p.grade, conf |-> p.conf,
                     need |-> p.need, news_flag |-> flagged])
Emit(al, t, q, p, flagged) ==
    Append(al, [ticker |-> t, quote |-> q, dip |-> p.dip, tier |-> p.tier,
                zone |-> p.zone, grade |-> p.grade, conf |-> p.conf,
                need |-> p.need, news_flag |-> flagged])

\* the quotes a ticker can have in the running scan: none (the fetch
\* failed), the simulated one, or one of the provider's (the good one for the
\* first ticker, any of them for the second)
QuotesFor(t) ==
    IF mode = "simulate"
    THEN IF t = "A" THEN {{SimQuote(SimArgs)}} ELSE {{}}
    ELSE IF t = "A" THEN {{}, {GoodQuote}}
    ELSE {{}} \cup {{q} : q \in QuoteSet}

\* the scan is left: its local variables are gone
ScanLeft ==
    /\ pc' = "idle"
    /\ mode' = "live"
    /\ qqq' = {}
    /\ audit' = ZeroAudit

\* one iteration of the loop "for ticker in tickers" (qqq_dip_scanner.py:209-406)
\* on the quote qo of the ticker; writable: the state file can be written.
\* When it cannot, _save raises out of should_alert after the store was
\* changed in memory, and the exception leaves scan: no alert is returned
\* and the tickers left in the queue are never evaluated.
Eval(qo, writable) ==
    /\ pc = "loop"
    /\ queue # <<>>
    /\ LET t == Head(queue)
           flagged == NewsFlag(t)
           marketOpen == IF mode = "backtest" THEN TRUE ELSE IsMarketOpen(now)
           base == [NoEval EXCEPT !.ticker = t, !.quote = qo, !.marketOpen = marketOpen,
                                  !.preAudit = audit, !.preData = data, !.preFile = file,
                                  !.preAlerts = Len(alerts), !.at = now, !.day = hist.day,
                                  !.prev = IF t = Tracked THEN hist.rec ELSE {}]
       IN  IF qo = {}
           THEN /\ ev' = [base EXCEPT !.stage = "noquote"]
                /\ hist' = Remember(hist, t, qo, {}, now, mode, FALSE)
                /\ UNCHANGED <<data, file, audit, alerts, pc, mode, qqq>>
           ELSE LET q == CHOOSE x \in qo : TRUE
                    p == Pipeline(q, cfg, audit, marketOpen, qqq)
                    done == [base EXCEPT !.stage = p.stage, !.dip = p.dip, !.tier = p.tier,
                                         !.min_conf = p.min_conf, !.rsi_max = p.rsi_max,
                                         !.relvol_min = p.relvol_min,
                                         !.zone = p.zone, !.grade = p.grade,
                                         !.conf = p.conf, !.need = p.need]
                IN  IF p.stage # "dedupe"
                    THEN /\ ev' = done
                         /\ audit' = p.audit
                         /\ hist' = Remember(hist, t, qo, p.dip, now, mode, FALSE)
                         /\ UNCHANGED <<data, file, alerts, pc, mode, qqq>>
                    ELSE LET a == [ticker |-> t, low |-> CHOOSE x \in p.dip : TRUE,
                                   delta |-> cfg.realert_delta, tier |-> {p.tier},
                                   price |-> {q.price},
                                   cooldown |-> cfg.dedupe_cooldown_minutes,
                                   testing |-> TestingFlag(cfg, mode)]
                             r == ShouldAlert(data, file, now, a.ticker, a.low, a.delta,
                                              a.tier, a.price, a.cooldown, a.testing)
                         IN  IF r.result /\ ~writable
                             THEN /\ data' = r.data
                                  /\ file' = file
                                  /\ hist' = Remember(hist, t, qo, p.dip, now, mode, FALSE)
                                  /\ ev' = [done EXCEPT !.called = TRUE, !.stage = "raised"]
                                  /\ alerts' = <<>>
                                  /\ ScanLeft
                             ELSE /\ data' = r.data
                                  /\ file' = r.file
                                  /\ audit' = p.audit
                                  /\ hist' = Remember(hist, t, qo, p.dip, now, mode, r.result)
                                  /\ ev' = [done EXCEPT !.called = TRUE, !.result = r.result,
                                                        !.news = r.result,
                                                        !.stage = IF r.result THEN "alert"
                                                                  ELSE "dedupe"]
                                  /\ alerts' =
                                       IF r.result
                                       THEN Emit(alerts, t, q, p, flagged)
                                       ELSE alerts
                                  /\ UNCHANGED <<pc, mode, qqq>>
    /\ queue' = Tail(queue)
    /\ UNCHANGED <<now, cfg, scans, last>>

\* an iteration of a scan whose state file is writable
EvalTicker ==
    /\ pc = "loop"
    /\ queue # <<>>
    /\ \E qo \in QuotesFor(Head(queue)) : Eval(qo, TRUE)
    /\ UNCHANGED auxVars

\* the loop is over: scan logs the audit counters and returns the alerts;
\* its local variables are gone
ScanReturn ==
    /\ pc = "loop"
    /\ queue = <<>>
    /\ ScanLeft
    /\ ev' = NoEval
    /\ hist' = [hist EXCEPT !.day = {}]
    /\ UNCHANGED <<now, data, file, last, cfg, queue, alerts, scans>>

ScanEnd ==
    /\ ScanReturn
    /\ UNCHANGED auxVars

NextScan == Tick \/ ScanStart \/ EvalTicker \/ ScanEnd

SpecScan == InitScan /\ [][NextScan]_vars

\* ------------------------------------------------------------------------
\* Properties of the StateStore
\* ------------------------------------------------------------------------
\* the last operation is a should_alert call
IsCall == last.op = "should_alert"
\* the ticker's stored entry before and after the last call
PreEntry == TodayBucket(last.preData, last.at)[Upper(last.args.ticker)]
PostEntry == TodayBucket(data, last.at)[Upper(last.args.ticker)]
\* the record found before the last call, legacy numbers wrapped
PreRec == Wrap(CHOOSE x \in PreEntry : TRUE)
\* the three conditions of the decision, written out on the call's arguments
ArgUpgrade ==
    /\ last.args.tier # {}
    /\ PreRec.tier # {}
    /\ \E n \in last.args.tier : \E m \in PreRec.tier : n > m
ArgDeepened == last.args.low <= PreRec.low + last.args.delta
ArgInWindow ==
    /\ PreRec.ts # {}
    /\ \E s \in PreRec.ts : last.at < s.iso + last.args.cooldown
\* the entry {low, tier, price, ts} a recording call is expected to leave
Expected(low, tier, price, t) ==
    [kind |-> "dict", low |-> low, tier |-> tier, price |-> price, ts |-> {[iso |-> t]}]
\* the file holds exactly the in-memory store
Persisted == file.exists /\ file.valid /\ file.content = data

\* C1: a should_alert call repeated with the same arguments on the same day,
\* live mode, cooldown > 0, delta < 0, the first call having found no record
\* and the second falling inside the cooldown window of the first: the first
\* call returned true and the second returns false.
C1_RepeatSuppressed ==
    ( /\ IsCall
      /\ last.prevSame
      /\ last.prevFirst
      /\ ~last.args.testing
      /\ last.args.cooldown > 0
      /\ last.args.delta < 0
      /\ last.at < last.prevAt + last.args.cooldown )
    => (last.prevResult /\ ~last.result)
C1_Witness ==
    /\ IsCall
    /\ last.prevSame
    /\ last.prevFirst
    /\ ~last.args.testing
    /\ last.args.cooldown > 0
    /\ last.args.delta < 0
    /\ last.prevAt < last.at
    /\ last.at < last.prevAt + last.args.cooldown
    /\ ~last.result

\* C2: a call whose tier is greater than the tier of today's stored record
\* records and returns true, whatever the dip, the delta and the cooldown.
C2_UpgradeOverrides ==
    (IsCall /\ PreEntry # {} /\ ArgUpgrade)
    => /\ last.result
       /\ PostEntry = {Expected(last.args.low, last.args.tier, last.args.price, last.at)}
C2_Witness ==
    /\ IsCall
    /\ PreEntry # {}
    /\ ArgUpgrade
    /\ ~last.args.testing
    /\ last.args.low > PreRec.low
    /\ last.args.delta < 0
    /\ ArgInWindow
    /\ last.result

\* C3 (as claimed): the in-memory store and the persisted file each hold at
\* most one date key in every reachable state.
C3_OneDateKey ==
    /\ Cardinality(DOMAIN data) <= 1
    /\ (file.exists /\ file.valid) => Cardinality(DOMAIN file.content) <= 1

\* C4: in live mode with an existing record, should_alert returns false
\* exactly when there is no tier upgrade, the dip has not deepened by the
\* delta and the call is inside the cooldown window; otherwise it returns true
\* and the entry carries the new low, price and timestamp.
C4_SuppressedExactly ==
    (IsCall /\ ~last.args.testing /\ PreEntry # {})
    => /\ ~last.result <=> (~ArgUpgrade /\ ~ArgDeepened /\ ArgInWindow)
       /\ last.result =>
            \E e \in PostEntry :
                /\ e.low = last.args.low
                /\ e.price = last.args.price
                /\ e.ts = {[iso |-> last.at]}
C4_Witness ==
    /\ IsCall
    /\ ~last.args.testing
    /\ PreEntry # {}
    /\ ~ArgUpgrade
    /\ ArgDeepened
    /\ last.args.low = PreRec.low + last.args.delta
    /\ ArgInWindow
    /\ last.result

\* C5 (as claimed): every call that returns true leaves exactly the new low,
\* the new tier, the new price and the current timestamp in the ticker's
\* entry, and the file equal to the store.
C5_RecordsExactly ==
    (IsCall /\ last.result)
    => /\ PostEntry = {Expected(last.args.low, last.args.tier, last.args.price, last.at)}
       /\ Persisted
\* the tier a recording call stores: the call's tier, except that the
\* deepening rule keeps the stored tier when the call's tier is absent
RecordedTier ==
    IF /\ ~last.args.testing
       /\ PreEntry # {}
       /\ ~ArgUpgrade
       /\ ArgDeepened
       /\ last.args.tier = {}
    THEN PreRec.tier
    ELSE last.args.tier
\* C5 (amended): every call that returns true leaves the new low, the new
\* price and the current timestamp in the ticker's entry, with the new tier,
\* or the stored tier when the deepening rule fires for a call whose tier is
\* absent (or 0); the file equals the store.
C5_RecordsAmended ==
    (IsCall /\ last.result)
    => /\ PostEntry = {Expected(last.args.low, RecordedTier, last.args.price, last.at)}
       /\ Persisted
C5_Witness ==
    /\ IsCall
    /\ last.result
    /\ PreEntry # {}
    /\ ~last.args.testing
    /\ last.args.tier = {}
    /\ PreRec.tier = {1}
    /\ ArgDeepened
    /\ \E e \in PostEntry : e.tier = {1} /\ e.low = last.args.low
    /\ Persisted

\* C6: with testing_mode true, should_alert returns true and records the new
\* entry, whatever the store held.
C6_TestingAlwaysAlerts ==
    (IsCall /\ last.args.testing)
    => /\ last.result
       /\ PostEntry = {Expected(last.args.low, last.args.tier, last.args.price, last.at)}
       /\ Persisted
C6_Witness ==
    /\ IsCall
    /\ last.args.testing
    /\ PreEntry # {}
    /\ ~ArgUpgrade
    /\ ~ArgDeepened
    /\ ArgInWindow
    /\ last.result

\* C7: a reset_if_new_day that follows another one on the same day leaves
\* the store and the file as the first one left them.
C7_ResetIdempotent ==
    (last.op = "reset" /\ last.prevReset)
    => (data = last.preData /\ file = last.preFile)
C7_Witness ==
    /\ last.op = "reset"
    /\ last.prevReset
    /\ data = [k \in {TodayKey(last.at)} |-> EmptyBucket]
    /\ TodayKey(last.at) # TodayKey(StartTime)

\* C8: reset_if_new_day replaces the store by an empty bucket for today and
\* saves it when the date keys are not exactly {today}; otherwise it leaves
\* the store and the file unchanged.
C8_ResetEffect ==
    (last.op = "reset")
    => IF DOMAIN last.preData # {TodayKey(last.at)}
       THEN /\ data = [k \in {TodayKey(last.at)} |-> EmptyBucket]
            /\ Persisted
       ELSE /\ data = last.preData
            /\ file = last.preFile
C8_Witness ==
    /\ last.op = "reset"
    /\ Cardinality(DOMAIN last.preData) = 2
    /\ TodayKey(last.at) \in DOMAIN last.preData
    /\ data = [k \in {TodayKey(last.at)} |-> EmptyBucket]
    /\ Persisted

\* C9 (as claimed): a StateStore constructed from the file has the per-ticker
\* records of today that the store had before the restart, and the file
\* always equals the in-memory store.
C9_RestartKeepsRecords ==
    /\ Persisted
    /\ (last.op = "restart" /\ TodayKey(last.at) = TodayKey(now))
       => TodayBucket(data, now) = TodayBucket(last.preData, now)

\* ------------------------------------------------------------------------
\* Properties of the decision pipeline
\* ------------------------------------------------------------------------
\* the quote of the last evaluation
EvQuote == CHOOSE q \in ev.quote : TRUE
\* the quote fails one of the five universe gates, written out on its fields
FailsUniverseGate(q, c) ==
    \/ q.market_cap < c.market_cap_min
    \/ q.avg_volume < c.avg_volume_min
    \/ q.dollar_volume = {}
    \/ \E v \in q.dollar_volume : v < c.min_dollar_volume
    \/ q.positive_fcf_or_income = {FALSE}
    \/ \E r \in q.analyst_rating : r \in {"sell", "Sell", "SELL"}

\* C10: a ticker whose quote fails a universe gate is skipped at the gates:
\* no audit counter changes, should_alert is not called and the store and
\* the file are as before.
C10_GatesBeforeTiers ==
    (ev.quote # {} /\ FailsUniverseGate(EvQuote, cfg))
    => /\ ev.stage = "universe"
       /\ audit = ev.preAudit
       /\ ~ev.called
       /\ data = ev.preData
       /\ file = ev.preFile
\* a gate-failing quote whose dip is a tier hit, in tiered mode, evaluated
\* after a ticker that was counted
C10_Witness ==
    /\ ev.quote # {}
    /\ FailsUniverseGate(EvQuote, cfg)
    /\ cfg.tiered_dips_enabled
    /\ EvQuote.intraday_low_change = {-6}
    /\ EvQuote.ma200 = {96}
    /\ ev.stage = "universe"
    /\ ev.preAudit.tier2 = 1
    /\ ev.preAudit.green_pass = 1
    /\ audit = ev.preAudit

\* C11: every AlertContext a scan returns is for a quote that passes the
\* five universe gates: market cap and average volume at least their
\* minimum, dollar volume known and at least its minimum, the fundamental
\* flag not false, the analyst rating not "sell" in any letter case.
C11_AlertsPassGates ==
    \A i \in DOMAIN alerts : ~FailsUniverseGate(alerts[i].quote, cfg)
\* a returned alert whose quote has neither a fundamental flag nor a rating
C11_Witness ==
    /\ pc = "idle"
    /\ \E i \in DOMAIN alerts :
         /\ alerts[i].quote.positive_fcf_or_income = {}
         /\ alerts[i].quote.analyst_rating = {}
         /\ alerts[i].quote.dollar_volume = {2}

\* the last evaluation got past the universe gates
EvPastGates == ev.stage \in {"tier", "zone", "confirm", "dedupe", "alert"}
\* the last evaluation got past the tier selection
EvPastTier == ev.stage \in {"zone", "confirm", "dedupe", "alert"}

\* C12: in tiered mode a dip metric <= tier2_dip is Tier 2, otherwise one
\* <= tier1_dip is Tier 1, each with its own minimum confirmations, RSI
\* ceiling and relative-volume floor, and any other (or a null) metric skips
\* the ticker; in non-tiered mode a metric > dip_threshold (or null) skips it
\* and any other is Tier 2 with a minimum of 2 confirmations.
C12_TierClassification ==
    EvPastGates =>
        IF ev.dip = {} THEN ev.stage = "tier"
        ELSE \E d \in ev.dip :
               IF cfg.tiered_dips_enabled
               THEN IF d <= cfg.tier2_dip
                    THEN /\ EvPastTier
                         /\ ev.tier = 2
                         /\ ev.min_conf = cfg.tier2_min_confirmations
                         /\ ev.rsi_max = cfg.tier2_rsi_max
                         /\ ev.relvol_min = cfg.tier2_relvol_min
                    ELSE IF d <= cfg.tier1_dip
                    THEN /\ EvPastTier
                         /\ ev.tier = 1
                         /\ ev.min_conf = cfg.tier1_min_confirmations
                         /\ ev.rsi_max = cfg.tier1_rsi_max
                         /\ ev.relvol_min = cfg.tier1_relvol_min
                    ELSE ev.stage = "tier"
               ELSE IF d > cfg.dip_threshold
                    THEN ev.stage = "tier"
                    ELSE /\ EvPastTier
                         /\ ev.tier = 2
                         /\ ev.min_conf = 2
\* a dip exactly at tier1_dip, classified Tier 1 in tiered mode and alerted
C12_Witness ==
    /\ cfg.tiered_dips_enabled
    /\ ev.dip = {cfg.tier1_dip}
    /\ ev.tier = 1
    /\ ev.min_conf = 3
    /\ ev.stage = "alert"

\* the distance of a quote's price from its 200-period average, in percent,
\* written out on the quote's fields (null when the quote has none)
DistOf(q) ==
    IF q.dma200_dist_pct = {} THEN {}
    ELSE IF q.ma200 = {} \/ q.ma200 = {0} THEN q.dma200_dist_pct
    ELSE {((q.price * 100) \div m) - 100 : m \in q.ma200}
\* the price has reclaimed above the average
Reclaimed(q) == \E m \in q.ma200 : q.price > m
\* the quote is in the RED zone: its distance is at or below red_pct
InRed(q, c) == \E d \in DistOf(q) : d <= c.dma200_red_pct

\* C13 (as claimed): a ticker in the RED zone is rejected at the zone step
\* and produces no AlertContext, unless allow_red_reclaim is configured and
\* the price has reclaimed above the average, and then it is admitted at
\* grade C.
C13_RedRejected ==
    /\ \A i \in DOMAIN alerts :
         InRed(alerts[i].quote, cfg)
         => /\ cfg.allow_red_reclaim
            /\ Reclaimed(alerts[i].quote)
            /\ alerts[i].grade = "C"
    /\ ( /\ EvPastTier
         /\ InRed(EvQuote, cfg)
         /\ ~(cfg.allow_red_reclaim /\ Reclaimed(EvQuote)) )
       => (ev.stage = "zone" /\ ~ev.called)

\* the quote is in the YELLOW zone: red_pct < distance < green_pct
InYellow(q, c) == \E d \in DistOf(q) : c.dma200_red_pct < d /\ d < c.dma200_green_pct

\* C14 (as claimed): with require_rising_dma200_in_yellow, a YELLOW ticker
\* is skipped at the zone step unless its rising flag is true; one whose flag
\* is null or false produces no AlertContext.
C14_YellowNeedsRising ==
    /\ \A i \in DOMAIN alerts :
         (cfg.require_rising_dma200_in_yellow /\ InYellow(alerts[i].quote, cfg))
         => alerts[i].quote.dma200_slope_rising = {TRUE}
    /\ ( /\ EvPastTier
         /\ cfg.require_rising_dma200_in_yellow
         /\ InYellow(EvQuote, cfg)
         /\ EvQuote.dma200_slope_rising # {TRUE} )
       => ev.stage = "zone"
\* C14 (amended): with require_rising_dma200_in_yellow, a YELLOW ticker whose
\* rising flag is false is skipped at the zone step and produces no
\* AlertContext; one whose flag is true or null (slope unavailable) goes on
\* to confirmation scoring.
C14_YellowFallingSkipped ==
    /\ \A i \in DOMAIN alerts :
         (cfg.require_rising_dma200_in_yellow /\ InYellow(alerts[i].quote, cfg))
         => alerts[i].quote.dma200_slope_rising # {FALSE}
    /\ ( /\ EvPastTier
         /\ cfg.require_rising_dma200_in_yellow
         /\ InYellow(EvQuote, cfg) )
       => IF EvQuote.dma200_slope_rising = {FALSE}
          THEN /\ ev.stage = "zone"
               /\ ~ev.called
               /\ Len(alerts) = ev.preAlerts
          ELSE ev.stage # "zone"
\* a YELLOW ticker with every confirmation and a falling average, skipped
C14_Witness ==
    /\ EvPastTier
    /\ cfg.require_rising_dma200_in_yellow
    /\ InYellow(EvQuote, cfg)
    /\ EvQuote.dma200_slope_rising = {FALSE}
    /\ ev.conf >= ev.need
    /\ ev.stage = "zone"
    /\ audit.yellow_fail = ev.preAudit.yellow_fail + 1

\* the configured minimum confirmation count of a tier
TierMinimum(tier, c) ==
    IF ~c.tiered_dips_enabled THEN 2
    ELSE IF tier = 2 THEN c.tier2_min_confirmations
    ELSE c.tier1_min_confirmations
\* zone and grade as the distance alone decides them; a RED ticker has either
\* grade
ZoneGradeFits(q, c, zone, grade) ==
    IF DistOf(q) = {} THEN zone = "UNKNOWN"
    ELSE \E d \in DistOf(q) :
           IF d >= c.dma200_green_pct THEN zone = "GREEN" /\ grade = "A"
           ELSE IF d > c.dma200_red_pct THEN zone = "YELLOW" /\ grade = "B"
           ELSE zone = "RED"

\* C15: zone and grade follow from the distance alone: dist >= green_pct is
\* GREEN with grade A, red_pct < dist < green_pct is YELLOW with grade B, a
\* null distance is UNKNOWN, which neither rejects the ticker nor raises the
\* required confirmations above the tier's minimum.
C15_ZoneByDistance ==
    /\ \A i \in DOMAIN alerts :
         ZoneGradeFits(alerts[i].quote, cfg, alerts[i].zone, alerts[i].grade)
    /\ EvPastTier
       => /\ ZoneGradeFits(EvQuote, cfg, ev.zone, ev.grade)
          /\ DistOf(EvQuote) = {}
             => /\ ev.stage # "zone"
                /\ ev.need = TierMinimum(ev.tier, cfg)
\* a ticker with no distance and every confirmation, alerted at the tier's
\* minimum
C15_Witness ==
    /\ EvPastTier
    /\ DistOf(EvQuote) = {}
    /\ ev.zone = "UNKNOWN"
    /\ ev.need = 2
    /\ ev.stage = "alert"

\* the pullback of the quote is known to have started more than 3 days ago
SlowGrind(q) == \E x \in q.days_since_pullback_start : x > 3

\* C16 (as claimed): with require_fast_selloff, a ticker whose
\* days_since_pullback_start is known and greater than 3 is skipped: it gets
\* no AlertContext and should_alert is not called, however many other
\* confirmations hold.
C16_FastSelloffGate ==
    /\ \A i \in DOMAIN alerts :
         cfg.require_fast_selloff => ~SlowGrind(alerts[i].quote)
    /\ (EvPastTier /\ cfg.require_fast_selloff /\ SlowGrind(EvQuote))
       => (~ev.called /\ ev.stage # "alert")

\* 1 when the condition holds, else 0
One(b) == IF b THEN 1 ELSE 0
\* the RSI ceiling and the relative-volume floor of a tier
RsiCeiling(tier, c) ==
    IF ~c.tiered_dips_enabled THEN c.rsi_threshold
    ELSE IF tier = 2 THEN c.tier2_rsi_max ELSE c.tier1_rsi_max
RelVolFloor(tier, c) ==
    IF ~c.tiered_dips_enabled THEN c.relative_volume_min
    ELSE IF tier = 2 THEN c.tier2_relvol_min ELSE c.tier1_relvol_min
\* the number of confirmation signals a quote passes
PassedCount(q, tier, c, bench) ==
    One(\E x \in q.rsi : x <= RsiCeiling(tier, c))
    + One(\E x \in q.relative_volume : x >= RelVolFloor(tier, c))
    + One(\E x \in q.dollar_volume : x >= c.min_dollar_volume)
    + One(q.market_cap >= c.market_cap_min)
    + One(\E x \in q.vwap : x # 0 /\ q.price <= x)
    + One(\E x \in bench : x > -25)
    + One(c.require_fast_selloff /\ \E x \in q.days_since_pullback_start : x <= 3)
\* the confirmations a quote needs: the tier's minimum, at least 3 in the
\* YELLOW and RED zones
RequiredCount(q, tier, c) ==
    IF (InYellow(q, c) \/ InRed(q, c)) /\ TierMinimum(tier, c) < 3
    THEN 3
    ELSE TierMinimum(tier, c)

\* C17: every AlertContext has a confirmation count of at least the tier's
\* minimum, and of at least 3 in the YELLOW and RED zones; a ticker that
\* passes fewer signals than required is skipped and should_alert is not
\* called for it.
C17_EnoughConfirmations ==
    /\ \A i \in DOMAIN alerts :
         alerts[i].conf >= RequiredCount(alerts[i].quote, alerts[i].tier, cfg)
    /\ (EvPastTier /\ ev.stage # "zone")
       => /\ ev.conf = PassedCount(EvQuote, ev.tier, cfg, qqq)
          /\ ev.conf < RequiredCount(EvQuote, ev.tier, cfg)
             => (ev.stage = "confirm" /\ ~ev.called /\ Len(alerts) = ev.preAlerts)
\* a Tier 2 ticker in the YELLOW zone with 2 confirmations, skipped
C17_Witness ==
    /\ EvPastTier
    /\ InYellow(EvQuote, cfg)
    /\ ev.tier = 2
    /\ TierMinimum(ev.tier, cfg) = 2
    /\ ev.conf = 2
    /\ ev.stage = "confirm"
    /\ ~ev.called

\* C18: the news check is advisory: a ticker for which should_alert returned
\* true gets its AlertContext whether or not a risk keyword was found in its
\* headlines; the finding only sets news_flag.
C18_NewsAdvisory ==
    (ev.called /\ ev.result)
    => /\ Len(alerts) = ev.preAlerts + 1
       /\ alerts[Len(alerts)].ticker = ev.ticker
       /\ alerts[Len(alerts)].quote = EvQuote
       /\ alerts[Len(alerts)].news_flag \in BOOLEAN
\* a live alert emitted with the risk flag set
C18_Witness ==
    /\ ev.called
    /\ ev.result
    /\ Len(alerts) = 1
    /\ alerts[1].ticker = ev.ticker
    /\ alerts[1].news_flag
    /\ mode = "live"

\* the alerts of the running (or last) scan that are for ticker t
AlertsOf(t) == {i \in DOMAIN alerts : alerts[i].ticker = t}

\* C19: in non-tiered mode with dip_threshold -5, a quote with an intraday
\* low of -6%, market cap 25B, average volume 5M, dollar volume 2B, RSI 30,
\* relative volume 2.0 and a distance of +3%, for a ticker with no record
\* today, yields exactly one AlertContext for the ticker, zone GREEN, grade A.
C19_Scenario ==
    ( /\ ev.quote = {ScenarioQuote}
      /\ ~cfg.tiered_dips_enabled
      /\ cfg.dip_threshold = -5
      /\ TodayBucket(ev.preData, ev.at)[ev.ticker] = {} )
    => /\ ev.stage = "alert"
       /\ Cardinality(AlertsOf(ev.ticker)) = 1
       /\ \A i \in AlertsOf(ev.ticker) :
            /\ alerts[i].quote = ScenarioQuote
            /\ alerts[i].zone = "GREEN"
            /\ alerts[i].grade = "A"
\* the scenario in a live scan during the session, after another alert
C19_Witness ==
    /\ ev.quote = {ScenarioQuote}
    /\ ScenarioQuote.intraday_low_change = {-6}
    /\ ScenarioQuote.dma200_dist_pct = {3}
    /\ ~cfg.tiered_dips_enabled
    /\ mode = "live"
    /\ ev.marketOpen
    /\ TodayBucket(ev.preData, ev.at)[ev.ticker] = {}
    /\ ev.stage = "alert"
    /\ Len(alerts) = 2
    /\ alerts[2].zone = "GREEN"
    /\ alerts[2].grade = "A"

\* the last evaluation repeats, in a second live scan of the same day and
\* inside the dedup cooldown, the evaluation r on which the scan before
\* alerted: same ticker, identical quote, same dip metric
RepeatsAlert(r) ==
    /\ ev.ticker = Tracked
    /\ mode = "live"
    /\ ~cfg.testing_mode
    /\ cfg.realert_delta < 0
    /\ ev.quote # {}
    /\ ev.quote = r.quote
    /\ ev.dip = r.dip
    /\ r.sameDay
    /\ ev.day = {TodayKey(ev.at)}
    /\ TodayKey(r.at) = TodayKey(ev.at)
    /\ ev.at < r.at + cfg.dedupe_cooldown_minutes

\* C20: two live scans on the same day, testing mode off, with identical
\* quotes for a ticker, the dip unchanged and the second scan inside the
\* dedup cooldown: the first scan having emitted the ticker's AlertContext,
\* the second emits none for it.
C20_SecondScanSilent ==
    \A r \in ev.prev :
        RepeatsAlert(r)
        => /\ ev.called
           /\ ~ev.result
           /\ ev.stage = "dedupe"
           /\ AlertsOf(ev.ticker) = {}
           /\ data = ev.preData
\* the second evaluation comes later than the first, which had found no
\* record of the ticker
C20_Witness ==
    /\ \E r \in ev.prev : RepeatsAlert(r) /\ r.at < ev.at
    /\ \E e \in TodayBucket(data, ev.at)[Tracked] : e.low = -6 /\ e.tier = {2}
    /\ ev.stage = "dedupe"

\* ------------------------------------------------------------------------
\* Legacy records
\* ------------------------------------------------------------------------
\* the ticker's entry before the last operation was a bare number
PreLegacy == \E x \in PreEntry : x.kind = "num"
\* the bare number
PreNumber == (CHOOSE x \in PreEntry : TRUE).low

\* C29: a legacy bare number n under the ticker's key is accepted:
\* get_today_entry returns {low: n, tier: absent} and leaves the store and
\* the file alone; a live should_alert decides as for a stored record
\* {low: n, tier: absent} without a timestamp (no upgrade is possible and
\* no cooldown applies, so it returns true whether or not the dip deepened)
\* and replaces the number by the full record of the call
C29_LegacyAccepted ==
    /\ (last.op = "get" /\ PreLegacy) =>
          /\ last.entry = {[kind |-> "dict", low |-> PreNumber, tier |-> {},
                            price |-> {}, ts |-> {}]}
          /\ data = last.preData
          /\ file = last.preFile
    /\ (IsCall /\ PreLegacy /\ ~last.args.testing) =>
          /\ last.result
          /\ PostEntry = {Expected(last.args.low, last.args.tier, last.args.price, last.at)}
          /\ Persisted
\* a live call on a legacy number that did not deepen by the delta: it
\* alerts because the number carries no timestamp, and the record is full
C29_Witness ==
    /\ IsCall /\ PreLegacy /\ ~last.args.testing
    /\ last.args.low > PreNumber + last.args.delta
    /\ last.result
    /\ \E x \in PostEntry : x.kind = "dict" /\ x.ts # {}

\* ------------------------------------------------------------------------
\* Dip metric selection
\* ------------------------------------------------------------------------
\* the metric the rule selects for a quote, written out: the session low's
\* change while the market is open (when it is known); after the close the
\* smaller of low and session change when after-hours is enabled and both
\* are known, otherwise the low, and the session change only when the low
\* is unknown
SelectedMetric(q, c, marketOpen) ==
    IF marketOpen
    THEN q.intraday_low_change
    ELSE IF c.after_hours_enabled /\ q.change_pct # {} /\ q.intraday_low_change # {}
         THEN {IF l <= ch THEN l ELSE ch : l \in q.intraday_low_change, ch \in q.change_pct}
         ELSE IF q.intraday_low_change # {} THEN q.intraday_low_change ELSE q.change_pct

\* C30: for every ticker evaluated past the universe gates the dip metric is
\* the selected one (intraday low when open or in a backtest; when closed
\* min(low, change) with after-hours enabled and both known, else the low,
\* else the change when the low is unknown), and that value is the one
\* should_alert records and the one the AlertContext carries
C30_DipMetricSelection ==
    (pc = "loop" /\ EvPastGates) =>
        /\ (~ev.marketOpen \/ EvQuote.intraday_low_change # {}) =>
              ev.dip = SelectedMetric(EvQuote, cfg, ev.marketOpen)
        /\ (ev.called /\ ev.result) =>
              /\ \E x \in TodayBucket(data, ev.at)[ev.ticker] : {x.low} = ev.dip
              /\ alerts[Len(alerts)].dip = ev.dip

\* ------------------------------------------------------------------------
\* Backtest and simulation runs
\* ------------------------------------------------------------------------
\* the running scan is a backtest or a simulation
TestingRun == pc = "loop" /\ mode \in {"backtest", "simulate"}
\* the record of the evaluated ticker the store held before the evaluation
\* would have suppressed a live call: same tier or lower, not deeper by the
\* delta, inside the cooldown window
LiveWouldSuppress ==
    \E x \in TodayBucket(ev.preData, ev.at)[ev.ticker] :
        /\ x.kind = "dict"
        /\ \A m \in x.tier : ev.tier <= m
        /\ \A d \in ev.dip : d > x.low + cfg.realert_delta
        /\ \E s \in x.ts : ev.at < s.iso + cfg.dedupe_cooldown_minutes

MaxAttempts == 4

\* the messages of the exceptions get_quote raises in the model
Messages == {"429 Too Many Requests", "Rate limit exceeded", "Connection reset"}

\* '"too many requests" in msg or "rate limit" in msg' on the lower-cased
\* message
RateLimitClassAny(msg) == TRUE
RateLimitClass(msg) == msg \in {"429 Too Many Requests", "Rate limit exceeded"}

\* "delay = 1.0 + attempt * 0.8", in tenths of a second
RetryDelay(a) == 10 + a * 8

\* the ticker lists scan passes: the sorted universe, or a part of it
FetchLists == {Universe, <<"B">>}

InitFetch ==
    /\ InitStoreFrom({NoFile})
    /\ cfg = BaseConfig
    /\ ScanIdle
    /\ AuxIdle

\* _fetch_quotes is called with a ticker list
FetchStart ==
    /\ fetchPc \in {"idle", "done"}
    /\ \E l \in FetchLists : pending' = l
    /\ fetchPc' = "loop"
    /\ attempt' = 0
    /\ quotes' = {}
    /\ calls' = [t \in Tickers |-> 0]
    /\ slept' = <<>>
    /\ outcome' = [t \in Tickers |-> "none"]
    /\ UNCHANGED <<storeVars, scanVars, sellVars, procVars>>

\* the loop moves on to the next ticker ("break", or range(4) is exhausted)
NextTicker ==
    /\ pending' = Tail(pending)
    /\ attempt' = 0

\* one get_quote call for the current ticker and what the loop does with
\* its result, up to the next call
GetQuoteCall ==
    /\ fetchPc = "loop"
    /\ pending # <<>>
    /\ LET t == Head(pending)
       IN  \E r \in {"ok"} \cup Messages :
             /\ calls' = [calls EXCEPT ![t] = @ + 1]
             /\ outcome' = [outcome EXCEPT ![t] = r]
             /\ IF r = "ok"
                THEN /\ quotes' = quotes \cup {t}
                     /\ slept' = slept
                     /\ NextTicker
                ELSE IF RateLimitClass(r)
                THEN /\ quotes' = quotes
                     /\ slept' = Append(slept, [ticker |-> t, delay |-> RetryDelay(attempt)])
                     /\ IF attempt + 1 < MaxAttempts
                        THEN /\ attempt' = attempt + 1
                             /\ pending' = pending
                        ELSE NextTicker
                ELSE /\ quotes' = quotes
                     /\ slept' = slept
                     /\ NextTicker
    /\ fetchPc' = fetchPc
    /\ UNCHANGED <<storeVars, scanVars, sellVars, procVars>>

\* the list is exhausted: the dict is returned
FetchEnd ==
    /\ fetchPc = "loop"
    /\ pending = <<>>
    /\ fetchPc' = "done"
    /\ UNCHANGED <<pending, attempt, quotes, calls, slept, outcome>>
    /\ UNCHANGED <<storeVars, scanVars, sellVars, procVars>>

NextFetch == FetchStart \/ GetQuoteCall \/ FetchEnd

SpecFetch == InitFetch /\ [][NextFetch]_vars

\* ------------------------------------------------------------------------
\* Properties of the fetch loop
\* ------------------------------------------------------------------------
\* the tickers still in the list
PendingSet == {pending[i] : i \in DOMAIN pending}
\* the retry delays slept for a ticker, in order
DelaysOf(t) == SelectSeq(slept, LAMBDA x : x.ticker = t)

\* C24: per ticker and cycle at most 4 get_quote calls are made (so the
\* loop ends after at most 4 calls per ticker); a call is repeated only
\* after a rate-limit failure, the k-th retry delay being 1.0 + 0.8 k
\* seconds; after any other failure the ticker is dropped without a further
\* call; and the returned dict holds exactly the tickers whose call succeeded
C24_FetchRetries ==
    /\ \A t \in Tickers :
          /\ calls[t] <= 4
          /\ calls[t] <= Len(DelaysOf(t)) + 1
          /\ \A k \in DOMAIN DelaysOf(t) : DelaysOf(t)[k].delay = 10 + 8 * (k - 1)
          /\ outcome[t] = "Connection reset" =>
                /\ t \notin PendingSet
                /\ t \notin quotes
          /\ outcome[t] = "ok" => t \notin PendingSet
          /\ t \in quotes <=> outcome[t] = "ok"
          /\ (t \in PendingSet /\ calls[t] > 0) =>
                outcome[t] \in {"429 Too Many Requests", "Rate limit exceeded"}
    /\ fetchPc = "done" =>
          /\ pending = <<>>
          /\ quotes = {t \in Tickers : outcome[t] = "ok"}
\* a finished fetch in which one ticker was rate-limited on all four
\* attempts and the other succeeded on a retry
C24_Witness ==
    /\ fetchPc = "done"
    /\ calls["A"] = 4
    /\ "A" \notin quotes
    /\ Len(DelaysOf("A")) = 4
    /\ calls["B"] = 2
    /\ "B" \in quotes

\* ------------------------------------------------------------------------
\* The sell-side monitor (SellAlertEngine)
\* Units: prices in tenths, gains and take-profit levels in thousandths
\* (0.07 is 70).
\* ------------------------------------------------------------------------
\* the items of positions.json in the model: a position entered at 100.0,
\* one with a lower-case ticker entered at 100.0, one whose entry price is
\* 0, and an item whose entry price is no number
ItemA == [ticker |-> "A", entry_price |-> {1000}]
ItemB == [ticker |-> "b", entry_price |-> {1000}]
ItemZero == [ticker |-> "B", entry_price |-> {0}]
ItemBad == [ticker |-> "B", entry_price |-> {}]
\* positions.json: absent, unreadable, or a list of items
NoPositions == [exists |-> FALSE, valid |-> FALSE, items |-> <<>>]
PositionFiles ==
    { NoPositions,
      [exists |-> TRUE, valid |-> FALSE, items |-> <<>>],
      [exists |-> TRUE, valid |-> TRUE, items |-> <<ItemA>>],
      [exists |-> TRUE, valid |-> TRUE, items |-> <<ItemA, ItemB>>],
      [exists |-> TRUE, valid |-> TRUE, items |-> <<ItemBad, ItemA>>],
      [exists |-> TRUE, valid |-> TRUE, items |-> <<ItemZero, ItemA>>],
      [exists |-> TRUE, valid |-> TRUE, items |-> <<ItemA, ItemZero>>] }

\* the level lists run_once builds, [take_profit_3, take_profit_2,
\* take_profit_1]: the defaults, and a configuration that numbers the levels
\* the other way round
LevelLists == { <<100, 70, 50>>, <<50, 70, 100>> }

\* the prices get_quote returns for a position: 100.0, 106.0, 107.5, 112.0
SellPrices == {1000, 1060, 1075, 1120}

\* SellAlertEngine._load_positions on a readable file: the items that
\* convert, as Positions
LoadPositions(f) ==
    LET RECURSIVE Conv(_)
        Conv(items) ==
            IF items = <<>> THEN <<>>
            ELSE LET i == Head(items)
                 IN  IF i.entry_price = {}
                     THEN Conv(Tail(items))
                     ELSE <<[ticker |-> Upper(i.ticker),
                             entry_price |-> CHOOSE x \in i.entry_price : TRUE]>>
                          \o Conv(Tail(items))
    IN  IF f.exists THEN Conv(f.items) ELSE <<>>

\* "gain = (quote.price - pos.entry_price) / pos.entry_price" for a
\* non-zero entry price; the prices of the model make the division exact
Gain(price, entry) == ((price - entry) * 1000) \div entry

\* "for level in self.tp_levels: if gain >= level: ... break": the level
\* of the alert, none when no level is met
LevelHit(levels, gain) ==
    LET met == {i \in DOMAIN levels : gain >= levels[i]}
    IN  IF met = {} THEN {}
        ELSE {levels[CHOOSE i \in met : \A j \in met : i <= j]}

\* the SellAlert of a position: target_hit is "<level*100>% above entry"
SellAlertOf(pos, price, level) ==
    [ticker |-> pos.ticker, price |-> price, target_hit |-> [tenths_pct |-> level],
     entry_price |-> pos.entry_price]

InitSell ==
    /\ InitStoreFrom({NoFile})
    /\ cfg = BaseConfig
    /\ ScanIdle
    /\ AuxIdle

\* run_once constructs the engine and calls scan, which loads the positions
SellStart ==
    /\ sellPc \in {"idle", "done", "raised"}
    /\ \E l \in LevelLists : tp_levels' = l
    /\ \E f \in PositionFiles :
         IF f.exists /\ ~f.valid
         THEN /\ sellPc' = "raised"
              /\ positions' = <<>>
         ELSE /\ sellPc' = "loop"
              /\ positions' = LoadPositions(f)
    /\ sellAlerts' = <<>>
    /\ sellEv' = NoSellEval
    /\ UNCHANGED <<storeVars, scanVars, fetchVars, procVars>>

\* one iteration of "for pos in positions"; a zero entry price raises
\* ZeroDivisionError outside the try, which leaves scan
SellEval ==
    /\ sellPc = "loop"
    /\ positions # <<>>
    /\ LET pos == Head(positions)
       IN  \E q \in {{}} \cup {{x} : x \in SellPrices} :
             /\ sellEv' = [pos |-> {pos}, price |-> q, preAlerts |-> Len(sellAlerts)]
             /\ IF q = {}
                THEN /\ sellPc' = "loop"
                     /\ sellAlerts' = sellAlerts
                ELSE IF pos.entry_price = 0
                THEN /\ sellPc' = "raised"
                     /\ sellAlerts' = <<>>
                ELSE LET price == CHOOSE x \in q : TRUE
                         hit == LevelHit(tp_levels, Gain(price, pos.entry_price))
                     IN  /\ sellPc' = "loop"
                         /\ sellAlerts' =
                              IF hit = {} THEN sellAlerts
                              ELSE Append(sellAlerts,
                                          SellAlertOf(pos, price, CHOOSE x \in hit : TRUE))
    /\ positions' = Tail(positions)
    /\ UNCHANGED tp_levels
    /\ UNCHANGED <<storeVars, scanVars, fetchVars, procVars>>

\* the positions are exhausted: the alerts are returned
SellEnd ==
    /\ sellPc = "loop"
    /\ positions = <<>>
    /\ sellPc' = "done"
    /\ UNCHANGED <<tp_levels, positions, sellAlerts, sellEv>>
    /\ UNCHANGED <<storeVars, scanVars, fetchVars, procVars>>

NextSell == SellStart \/ SellEval \/ SellEnd

SpecSell == InitSell /\ [][NextSell]_vars

\* ------------------------------------------------------------------------
\* Properties of the sell-side monitor
\* ------------------------------------------------------------------------
\* the position evaluated last, its price and its gain in thousandths
EvPos == CHOOSE x \in sellEv.pos : TRUE
EvPrice == CHOOSE x \in sellEv.price : TRUE
EvGain == ((EvPrice - EvPos.entry_price) * 1000) \div EvPos.entry_price
\* the levels the gain meets
LevelsMet == {tp_levels[i] : i \in {j \in DOMAIN tp_levels : EvGain >= tp_levels[j]}}
\* the SellAlerts the last evaluation appended
NewSellAlerts == {i \in DOMAIN sellAlerts : i > sellEv.preAlerts}

\* C26: a position whose gain meets at least one take-profit level gets
\* exactly one SellAlert, labelled with the highest level met, whatever
\* the order of the configured levels
C26_HighestLevelMet ==
    (sellEv.pos # {} /\ sellEv.price # {} /\ EvPos.entry_price # 0 /\ LevelsMet # {}) =>
        /\ Len(sellAlerts) = sellEv.preAlerts + 1
        /\ sellAlerts[Len(sellAlerts)].ticker = EvPos.ticker
        /\ \A l \in LevelsMet : l <= sellAlerts[Len(sellAlerts)].target_hit.tenths_pct
        /\ sellAlerts[Len(sellAlerts)].target_hit.tenths_pct \in LevelsMet

\* C27: a position whose quote cannot be fetched or whose entry price is 0
\* is skipped and nothing else: no SellAlert for it, scan goes on with the
\* next position and keeps the alerts it has; and a position that meets no
\* level produces no alert
C27_FailureSkipsPosition ==
    /\ (sellEv.pos # {} /\ (sellEv.price = {} \/ EvPos.entry_price = 0)) =>
          /\ sellPc \in {"loop", "done"}
          /\ Len(sellAlerts) = sellEv.preAlerts
    /\ (sellEv.pos # {} /\ sellEv.price # {} /\ EvPos.entry_price # 0 /\ LevelsMet = {}) =>
          Len(sellAlerts) = sellEv.preAlerts

\* ------------------------------------------------------------------------
\* The scheduler (main): the loop, run_once, the DailyNotifier and the two
\* sinks, both configured. The sell-side monitor is disabled
\* (enable_sell_alerts is false).
\* ------------------------------------------------------------------------
\* the list the cache file holds when there is one
CachedList == <<"B", "A">>
\* the cache file (none, younger than cache_hours: fresh, older: stale)
\* and what _fetch_constituents_online returns (nothing when it raises) at
\* a call of get_constituents: no cache and no download, an old cache and
\* no download, a fresh cache, an old cache and a download of one ticker
ConstituentCases ==
    { [cache |-> "none", online |-> {}],
      [cache |-> "stale", online |-> {}],
      [cache |-> "fresh", online |-> {<<"A", "B">>}],
      [cache |-> "stale", online |-> {<<"B">>}] }
\* cfg.custom_watchlist
Watchlists == { <<"a">> }

\* YahooProvider.get_constituents
GetConstituentsEmptyList(cache, online) ==
    IF cache = "fresh" \/ (online = {} /\ cache = "stale")
    THEN [raised |-> FALSE, list |-> CachedList]
    ELSE [raised |-> FALSE, list |-> IF online = {} THEN <<>> ELSE CHOOSE l \in online : TRUE]
GetConstituents(cache, online) ==
    IF cache = "fresh"
    THEN [raised |-> FALSE, list |-> CachedList]
    ELSE IF online # {}
    THEN [raised |-> FALSE, list |-> CHOOSE l \in online : TRUE]
    ELSE IF cache = "stale"
    THEN [raised |-> FALSE, list |-> CachedList]
    ELSE [raised |-> TRUE, list |-> <<>>]

\* the code point of a ticker's first letter: the order sorted() puts the
\* tickers of the model in
Ord(t) == IF t = "A" THEN 65 ELSE IF t = "B" THEN 66 ELSE IF t = "a" THEN 97 ELSE 98

\* "tickers = set(constituents); tickers.update(upper-cased watchlist);
\* tickers = sorted(tickers)"
ListedTickers(cons, watch) == cons
SortedTickers(cons, watch) ==
    LET all == {cons[i] : i \in DOMAIN cons} \cup {Upper(watch[i]) : i \in DOMAIN watch}
        RECURSIVE Sorted(_)
        Sorted(S) ==
            IF S = {} THEN <<>>
            ELSE LET m == CHOOSE x \in S : \A y \in S : Ord(x) <= Ord(y)
                 IN  <<m>> \o Sorted(S \ {m})
    IN  Sorted(all)

\* the quotes a ticker can have in a scan of the scheduler: none, or the
\* good one
MainQuotes == {{}, {GoodQuote}}
\* the benchmark's day change in a scan of the scheduler: known, -1.0%
MainBenchmark == {-10}

InitMain ==
    /\ InitStoreFrom({NoFile})
    /\ cfg = BaseConfig
    /\ ScanIdle
    /\ FetchIdle
    /\ SellIdle
    /\ proc = "top"
    /\ ProcStart

\* the sinks accepted the posts ps: one accepted before is posted again
Post(h, ps) == [once |-> h.once \cup ps, again |-> h.again \cup (h.once \cap ps)]

\* the process is started again (by its service manager or by hand) after
\* it ended, or while it sleeps: a new DailyNotifier reads its file
\* (main.py:48-58, 155); every other object is new
ProcRestart ==
    /\ proc \in {"top", "exit"}
    /\ proc' = "top"
    /\ notice' = IF noticeFile = {} THEN NoNotice ELSE CHOOSE x \in noticeFile : TRUE
    /\ UNCHANGED <<cycles, noticeFile, posted, outbox, deliveries, logged, run>>
    /\ UNCHANGED <<storeVars, scanVars, fetchVars, sellVars>>

\* the head of "while True" (main.py:157-176) up to the call of run_once:
\* notifier.maybe_send(), then the market-hours check. w: the notice window
\* the clock is in; tg, dc: whether the Telegram and the Discord post
\* succeed. A send that raises leaves maybe_send and, as the call is outside
\* any try, the loop and the process.
LoopTop ==
    /\ proc = "top"
    /\ cycles < MaxScans
    /\ cycles' = cycles + 1
    /\ \E w \in {"none", "premarket", "open"} :
         \E tg \in BOOLEAN :
           \E dc \in BOOLEAN :
             LET st == IF notice.date # {TodayKey(now)}
                       THEN [date |-> {TodayKey(now)}, premarket |-> FALSE, open |-> FALSE]
                       ELSE notice
                 due == \/ w = "premarket" /\ ~st.premarket
                        \/ w = "open" /\ ~st.open
                 tgCall == [kind |-> "notice", msg |-> w, sink |-> "telegram", ok |-> tg]
                 dcCall == [kind |-> "notice", msg |-> w, sink |-> "discord", ok |-> dc]
                 next == IF /\ cfg.market_hours_only
                            /\ ~cfg.after_hours_enabled
                            /\ ~IsMarketOpen(now)
                         THEN "top"
                         ELSE "run"
                 tgPost == [day |-> TodayKey(now), msg |-> w, sink |-> "telegram"]
                 dcPost == [day |-> TodayKey(now), msg |-> w, sink |-> "discord"]
             IN  IF ~due
                 THEN /\ notice' = st
                      /\ deliveries' = <<>>
                      /\ proc' = next
                      /\ UNCHANGED <<noticeFile, posted>>
                 ELSE IF ~tg
                 THEN /\ notice' = st
                      /\ deliveries' = <<tgCall>>
                      /\ proc' = "exit"
                      /\ UNCHANGED <<noticeFile, posted>>
                 ELSE IF ~dc
                 THEN /\ notice' = st
                      /\ deliveries' = <<tgCall, dcCall>>
                      /\ proc' = "exit"
                      /\ posted' = Post(posted, {tgPost})
                      /\ UNCHANGED noticeFile
                 ELSE /\ notice' = [st EXCEPT ![w] = TRUE]
                      /\ noticeFile' = {[st EXCEPT ![w] = TRUE]}
                      /\ deliveries' = <<tgCall, dcCall>>
                      /\ posted' = Post(posted, {tgPost, dcPost})
                      /\ proc' = next
    /\ UNCHANGED <<outbox, logged, run>>
    /\ UNCHANGED <<storeVars, scanVars, fetchVars, sellVars>>

\* run_once up to the scan loop (main.py:92-94, qqq_dip_scanner.py:150-207):
\* a new scanner, reset_if_new_day, get_constituents. When that raises, the
\* exception leaves scan and run_once, and the loop logs it
\* (main.py:172-173) and goes on to sleep.
RunOnceStart ==
    /\ proc = "run"
    /\ \E in \in ConstituentCases :
         \E watch \in Watchlists :
             LET c == GetConstituents(in.cache, in.online)
                 rec == [outcome |-> "scanning", after |-> run.outcome, cache |-> in.cache,
                         online |-> in.online, watch |-> watch, at |-> now, preFile |-> file,
                         preLogged |-> logged, cycle |-> cycles, owed |-> run.owed]
             IN  IF c.raised
                 THEN /\ LET s0 == Load(file, now)
                             s1 == ResetIfNewDay(s0.data, s0.file, now)
                         IN  /\ data' = s1.data
                             /\ file' = s1.file
                      /\ alerts' = <<>>
                      /\ run' = [rec EXCEPT !.outcome = "constituents"]
                      /\ logged' = logged + 1
                      /\ proc' = "top"
                      /\ UNCHANGED <<now, last, cfg, pc, mode, queue, qqq, audit, scans, ev,
                                     hist>>
                 ELSE /\ ScanBegin("live", MainBenchmark, TRUE, SortedTickers(c.list, watch))
                      /\ run' = rec
                      /\ proc' = "scan"
                      /\ UNCHANGED logged
    /\ UNCHANGED <<cycles, notice, noticeFile, posted, outbox, deliveries>>
    /\ UNCHANGED <<fetchVars, sellVars>>

\* an iteration of the scan loop inside run_once; when should_alert cannot
\* write the state file the exception leaves scan and run_once, and the loop
\* logs it
RunEval ==
    /\ proc = "scan"
    /\ \E qo \in MainQuotes :
         \E writable \in BOOLEAN : Eval(qo, writable)
    /\ IF pc' = "idle"
       THEN /\ run' = [run EXCEPT !.outcome = "evaluation"]
            /\ logged' = logged + 1
            /\ proc' = "top"
       ELSE /\ run' = [run EXCEPT !.owed = IF ev'.result THEN @ \cup {ev'.ticker} ELSE @]
            /\ UNCHANGED <<logged, proc>>
    /\ UNCHANGED <<cycles, notice, noticeFile, posted, outbox, deliveries>>
    /\ UNCHANGED <<fetchVars, sellVars>>

\* scan returns its alerts to run_once
RunScanEnd ==
    /\ proc = "scan"
    /\ ScanReturn
    /\ outbox' = [i \in DOMAIN alerts |-> alerts[i].ticker]
    /\ proc' = "send"
    /\ UNCHANGED <<cycles, notice, noticeFile, posted, deliveries, logged, run>>
    /\ UNCHANGED <<fetchVars, sellVars>>

\* one iteration of "for ctx in alerts" (main.py:95-100): alerter.send, then
\* discord_alerter.send; a send that raises leaves run_once, and the loop
\* logs it
Deliver ==
    /\ proc = "send"
    /\ outbox # <<>>
    /\ \E tg \in BOOLEAN :
         \E dc \in BOOLEAN :
           LET tgCall == [kind |-> "dip", msg |-> Head(outbox), sink |-> "telegram", ok |-> tg]
               dcCall == [kind |-> "dip", msg |-> Head(outbox), sink |-> "discord", ok |-> dc]
           IN  IF ~tg
               THEN /\ deliveries' = Append(deliveries, tgCall)
                    /\ outbox' = <<>>
                    /\ run' = [run EXCEPT !.outcome = "delivery", !.owed = @ \ {Head(outbox)}]
                    /\ logged' = logged + 1
                    /\ proc' = "top"
               ELSE IF ~dc
               THEN /\ deliveries' = deliveries \o <<tgCall, dcCall>>
                    /\ outbox' = <<>>
                    /\ run' = [run EXCEPT !.outcome = "delivery", !.owed = @ \ {Head(outbox)}]
                    /\ logged' = logged + 1
                    /\ proc' = "top"
               ELSE /\ deliveries' = deliveries \o <<tgCall, dcCall>>
                    /\ outbox' = Tail(outbox)
                    /\ run' = [run EXCEPT !.owed = @ \ {Head(outbox)}]
                    /\ UNCHANGED <<logged, proc>>
    /\ UNCHANGED <<cycles, notice, noticeFile, posted>>
    /\ UNCHANGED <<storeVars, scanVars, fetchVars, sellVars>>

\* every alert is delivered: run_once returns, the loop sleeps
RunOnceEnd ==
    /\ proc = "send"
    /\ outbox = <<>>
    /\ run' = [run EXCEPT !.outcome = "ok"]
    /\ proc' = "top"
    /\ UNCHANGED <<cycles, notice, noticeFile, posted, outbox, deliveries, logged>>
    /\ UNCHANGED <<storeVars, scanVars, fetchVars, sellVars>>

NextMain ==
    Tick \/ ProcRestart \/ LoopTop \/ RunOnceStart \/ RunEval \/ RunScanEnd \/ Deliver
    \/ RunOnceEnd

SpecMain == InitMain /\ [][NextMain]_vars

\* ------------------------------------------------------------------------
\* Properties of the scheduler and of the scans it runs
\* ------------------------------------------------------------------------
\* ticker a sorts before ticker b
Before(a, b) == <<a, b>> \in {<<"A", "B">>}
\* the tickers the provider listed for the running scan, in its order: the
\* cached list when the cache is fresh or nothing was downloaded, the
\* download otherwise
Listed ==
    IF run.cache = "fresh" \/ run.online = {}
    THEN <<"B", "A">>
    ELSE CHOOSE l \in run.online : TRUE
\* the universe of the running scan: the listed tickers and the watchlist's
\* "a", upper-cased
ListedSet == {Listed[i] : i \in DOMAIN Listed} \cup {"A"}

C23_TickerFailureContained ==
    ev.stage \in {"noquote", "raised"} =>
        /\ pc = "loop"
        /\ Len(alerts) >= ev.preAlerts

\* C25: with no cache and no download get_constituents raises; the scan
\* then ends without an alert, a delivery or a new record in the store, the
\* loop logs the exception, and the process is back at the head of the
\* loop for its next cycle
C25_ConstituentsFailure ==
    /\ (run.outcome # "none" /\ run.cache = "none" /\ run.online = {}) =>
          run.outcome = "constituents"
    /\ (run.outcome = "constituents" /\ cycles = run.cycle) =>
          /\ run.cache = "none" /\ run.online = {}
          /\ proc = "top"
          /\ pc = "idle"
          /\ logged = run.preLogged + 1
          /\ alerts = <<>>
          /\ outbox = <<>>
          /\ \A i \in DOMAIN deliveries : deliveries[i].kind # "dip"
          /\ \A t \in Tickers :
                TodayBucket(data, run.at)[t] # {} =>
                    /\ run.preFile.exists /\ run.preFile.valid
                    /\ TodayBucket(run.preFile.content, run.at)[t] = TodayBucket(data, run.at)[t]
\* the cycle after a failed constituents fetch is scanning
C25_Witness ==
    /\ run.after = "constituents"
    /\ run.outcome = "scanning"
    /\ proc = "scan"
    /\ cycles = 2
    /\ logged >= 1

\* C28: a send that raises does not end the process, and the other sink is
\* attempted for the same message
C28_DeliveryFailureContained ==
    \A i \in DOMAIN deliveries :
        ~deliveries[i].ok =>
            /\ proc # "exit"
            /\ \E j \in DOMAIN deliveries :
                  /\ deliveries[j].msg = deliveries[i].msg
                  /\ deliveries[j].kind = deliveries[i].kind
                  /\ deliveries[j].sink # deliveries[i].sink

\* ------------------------------------------------------------------------
\* Properties of scans across a day change and of the store's frame
\* ------------------------------------------------------------------------
\* the calendar day a clock value lies in
DayOf(t) == t \div DayLen
\* the evaluation before the last one of the tracked ticker was a live alert
\* made on an earlier calendar day
AlertedDayBefore(r) ==
    /\ ev.ticker = Tracked
    /\ mode = "live"
    /\ ~cfg.testing_mode
    /\ DayOf(r.at) < DayOf(ev.at)

\* C31: scan resets the store before it evaluates a ticker, and records of
\* an earlier day never suppress: when the loop starts the store holds the
\* scan's starting day and no other; a ticker that alerted the day before
\* and passes steps 1-6 again gets should_alert = true, inside the cooldown
\* of that alert too; and a suppressed ticker was recorded under today's key
\* with a timestamp of today
C31_NewDayNeverSuppressed ==
    /\ (pc = "loop" /\ ev.ticker = "") => DOMAIN data = hist.day
    /\ \A r \in ev.prev :
          (AlertedDayBefore(r) /\ ev.called) =>
              /\ ev.result
              /\ ev.stage = "alert"
              /\ AlertsOf(ev.ticker) # {}
    /\ (ev.called /\ ~ev.result) =>
          /\ DayOf(ev.at) \in DOMAIN ev.preData
          /\ \E e \in ev.preData[DayOf(ev.at)][ev.ticker] :
                \E s \in e.ts : DayOf(s.iso) = DayOf(ev.at)
\* the tracked ticker alerted the day before, is evaluated inside the
\* cooldown of that alert with the same dip, and alerts again
C31_Witness ==
    /\ \E r \in ev.prev :
          /\ AlertedDayBefore(r)
          /\ ev.at < r.at + cfg.dedupe_cooldown_minutes
          /\ ev.dip = r.dip
    /\ ev.called
    /\ ev.result
    /\ ev.day = {DayOf(ev.at)}

\* C32: a should_alert call that returns false leaves the store and the file
\* as they were: every date key and every ticker's record is the one from
\* before the call, the called ticker's low, tier, price and timestamp
\* included
C32_SuppressedLeavesStore ==
    (IsCall /\ ~last.result) =>
        /\ DOMAIN data = DOMAIN last.preData
        /\ \A k \in DOMAIN data : \A t \in Tickers : data[k][t] = last.preData[k][t]
        /\ file = last.preFile
        /\ PreEntry # {}
        /\ PostEntry = PreEntry
\* a call suppressed one clock unit after the record was written
C32_Witness ==
    /\ IsCall
    /\ ~last.result
    /\ ~last.args.testing
    /\ \E e \in PreEntry : \E s \in e.ts : s.iso < last.at
    /\ \E e \in PostEntry : \E s \in e.ts : s.iso < last.at

\* the dip metric of the last evaluation is a hit: at or below the Tier 1
\* threshold in tiered mode, at or below dip_threshold otherwise
EvDipHit ==
    \E d \in ev.dip :
        IF cfg.tiered_dips_enabled THEN d <= cfg.tier1_dip ELSE d <= cfg.dip_threshold
\* the zone step rejects the quote: YELLOW with a falling average when a
\* rising one is required, or at or below the hard floor
ZoneRejects(q, c) ==
    \/ /\ InYellow(q, c)
       /\ c.require_rising_dma200_in_yellow
       /\ q.dma200_slope_rising = {FALSE}
    \/ \E d \in DistOf(q) : d <= c.dma200_red_pct /\ d <= c.hard_reject_below_200dma_pct
\* the last evaluation ended before the dedup step
EvSkippedEarly == ev.stage \in {"noquote", "universe", "tier", "zone", "confirm"}

\* C33: a ticker skipped before the dedup step (no quote, universe gate, dip
\* threshold, zone, confirmations) leaves the store and the file as they
\* were; should_alert is called only for a ticker that has a quote, passes
\* the gates, has a dip at the threshold, is not rejected by its zone and
\* has the confirmations it needs; and the headlines are queried only when
\* should_alert returned true
C33_SkippedLeavesStore ==
    /\ EvSkippedEarly =>
          /\ ~ev.called
          /\ ~ev.news
          /\ data = ev.preData
          /\ file = ev.preFile
          /\ Len(alerts) = ev.preAlerts
    /\ ev.called =>
          /\ ev.quote # {}
          /\ ~FailsUniverseGate(EvQuote, cfg)
          /\ EvDipHit
          /\ ~ZoneRejects(EvQuote, cfg)
          /\ PassedCount(EvQuote, ev.tier, cfg, qqq) >= RequiredCount(EvQuote, ev.tier, cfg)
    /\ ev.news => (ev.called /\ ev.result)
\* the second ticker is skipped for its confirmations after the first was
\* recorded in this scan
C33_Witness ==
    /\ ev.ticker = "B"
    /\ ev.stage = "confirm"
    /\ ev.preAlerts = 1
    /\ TodayBucket(ev.preData, ev.at)["A"] # {}
    /\ TodayBucket(data, ev.at)["B"] = {}
    /\ data = ev.preData
    /\ ~ev.news

\* the scan is over: the loop has run through the universe and scan is
\* about to return its alerts
ScanCompleted == pc = "loop" /\ queue = <<>>
\* the store holds, under day k, a record of alert al's ticker with the
\* alert's dip metric as low and its quote's price as price
RecordedUnder(k, al) ==
    /\ k \in DOMAIN data
    /\ \E e \in data[k][al.ticker] : {e.low} = al.dip /\ e.price = {al.quote.price}
\* the record of the last evaluated ticker under the day of the evaluation,
\* before and after it
EvRecordBefore ==
    IF DayOf(ev.at) \in DOMAIN ev.preData THEN ev.preData[DayOf(ev.at)][ev.ticker] ELSE {}
EvRecordAfter ==
    IF DayOf(ev.at) \in DOMAIN data THEN data[DayOf(ev.at)][ev.ticker] ELSE {}

\* C34 (as claimed): a completed scan returns at most one AlertContext per
\* ticker, today's record of every returned ticker has the alert's dip
\* metric as low and the quote's price as price, and in a live scan every
\* ticker whose record was written has an AlertContext
C34_AlertsMatchStore ==
    /\ \A i \in DOMAIN alerts : \A j \in DOMAIN alerts :
          i # j => alerts[i].ticker # alerts[j].ticker
    /\ ScanCompleted => \A i \in DOMAIN alerts : RecordedUnder(DayOf(now), alerts[i])
    /\ (pc = "loop" /\ mode = "live" /\ ev.ticker # "" /\ EvRecordAfter # EvRecordBefore) =>
          AlertsOf(ev.ticker) # {}
\* C34 (amended): in a scan that runs within one calendar day, at most one
\* AlertContext per ticker is collected, today's record of every alerted
\* ticker has the alert's dip metric as low and the quote's price as price
\* from the alert on until the scan returns, and in a live scan a ticker
\* whose record was written has an AlertContext
C34_SameDayAlertsMatchStore ==
    /\ \A i \in DOMAIN alerts : \A j \in DOMAIN alerts :
          i # j => alerts[i].ticker # alerts[j].ticker
    /\ (pc = "loop" /\ hist.day = {DayOf(now)}) =>
          \A i \in DOMAIN alerts : RecordedUnder(DayOf(now), alerts[i])
    /\ (pc = "loop" /\ mode = "live" /\ ev.ticker # "" /\ EvRecordAfter # EvRecordBefore) =>
          /\ AlertsOf(ev.ticker) # {}
          /\ \E e \in EvRecordAfter : {e.low} = ev.dip /\ e.price = {EvQuote.price}
\* a live scan within one day is over with an alert for each ticker, the
\* second one replacing a record the store held before
C34_Witness ==
    /\ ScanCompleted
    /\ mode = "live"
    /\ hist.day = {DayOf(now)}
    /\ Len(alerts) = 2
    /\ ev.ticker = "B"
    /\ EvRecordBefore # {}
    /\ EvRecordAfter # EvRecordBefore
    /\ RecordedUnder(DayOf(now), alerts[1])
    /\ RecordedUnder(DayOf(now), alerts[2])

\* the last evaluation reached confirmation scoring
EvScored == ev.stage \in {"confirm", "dedupe", "alert"}
\* the quote is in zone GREEN or UNKNOWN: at or above green_pct, or no
\* distance known
GreenOrUnknown(q, c) == \A d \in DistOf(q) : d >= c.dma200_green_pct

\* C35: a ticker that reaches confirmation scoring has a dollar volume and a
\* market cap of at least their minimum, so at least 2 confirmations; in
\* non-tiered mode a ticker in zone GREEN or UNKNOWN is never skipped at the
\* confirmation step
C35_TwoConfirmationsGranted ==
    /\ (pc = "loop" /\ EvScored) =>
          /\ \E v \in EvQuote.dollar_volume : v >= cfg.min_dollar_volume
          /\ EvQuote.market_cap >= cfg.market_cap_min
          /\ ev.conf >= 2
    /\ (pc = "loop" /\ EvScored /\ ~cfg.tiered_dips_enabled /\ GreenOrUnknown(EvQuote, cfg)) =>
          /\ ev.stage # "confirm"
          /\ ev.called
\* a GREEN ticker in non-tiered mode with no RSI, low relative volume, no
\* VWAP, a slow pullback and the benchmark down 3% reaches should_alert on
\* its two granted confirmations
C35_Witness ==
    /\ pc = "loop"
    /\ EvScored
    /\ ~cfg.tiered_dips_enabled
    /\ GreenOrUnknown(EvQuote, cfg)
    /\ EvQuote.rsi = {}
    /\ EvQuote.vwap = {}
    /\ qqq = {-30}
    /\ ev.conf = 2
    /\ ev.called

\* the records of the last evaluated ticker, found under the evaluation's
\* day before the evaluation, that were written that day and whose cooldown
\* window holds the evaluation
CoolingRecords ==
    {e \in EvRecordBefore :
        \E s \in e.ts : /\ DayOf(s.iso) = DayOf(ev.at)
                        /\ ev.at < s.iso + cfg.dedupe_cooldown_minutes}
\* the last evaluation is a live one that alerted
LiveAlert ==
    /\ pc = "loop"
    /\ mode = "live"
    /\ ~cfg.testing_mode
    /\ cfg.realert_delta < 0
    /\ ev.stage = "alert"

\* C36: a live alert for a ticker inside the cooldown window of the ticker's
\* record of the same day has a dip metric strictly below the recorded low:
\* it is at or below the low plus the delta, or its tier is above the
\* recorded one, and then, in tiered mode, the dip is at or below the
\* Tier 2 threshold
C36_RealertOnlyDeeper ==
    LiveAlert =>
        \A e \in CoolingRecords :
            /\ \A d \in ev.dip : d < e.low
            /\ \/ \A d \in ev.dip : d <= e.low + cfg.realert_delta
               \/ /\ \E n \in e.tier : ev.tier > n
                  /\ cfg.tiered_dips_enabled => \A d \in ev.dip : d <= cfg.tier2_dip
            /\ ev.dip # {}
\* a Tier 1 alert of an earlier scan of the day (dip -4 at price 96) is
\* followed inside its cooldown by a Tier 2 alert at a deeper dip
C36_Witness ==
    /\ LiveAlert
    /\ \E e \in CoolingRecords :
          /\ e.low = -4
          /\ e.tier = {1}
          /\ e.price = {96}
    /\ ev.tier = 2
    /\ \E d \in ev.dip : d < -4

\* ------------------------------------------------------------------------
\* Properties of the path from the record to the delivery
\* ------------------------------------------------------------------------
\* C37: no alert is lost between the record and the delivery: when a cycle
\* has run to its end without an exception, alerter.send has been called, in
\* it or in a cycle before, for every ticker the store recorded, also after
\* a cycle whose scan raised behind a record or whose send failed for an
\* earlier alert
C37_NoAlertLost ==
    (proc = "top" /\ run.outcome = "ok") => run.owed = {}

\* C38: a daily notice is posted at most once per calendar day on each
\* sink, over repeated maybe_send calls in its window, restarts of the
\* process and failing sends
C38_NoticeOncePerDay == posted.again = {}

====
